---------------------------- MODULE Spec2Model ----------------------------
(***************************************************************************)
(* Vogels MotionMount BLE integration: the protocol engine of api.py       *)
(* (class API: connect, authenticate, permission check, write, read-back)  *)
(* together with the pure helpers of client.py (PIN encoding, write gate,  *)
(* status classification).                                                 *)
(*                                                                         *)
(* One operation of the API is in flight at a time; it advances in steps   *)
(* that end at an await whose answer is an input (the connection, a status *)
(* read, a write).  The mount is the environment: it stores its            *)
(* characteristics as byte strings, may silently reject or adjust a write, *)
(* and answers every read of the authentication status with a payload of   *)
(* its own choosing.                                                       *)
(***************************************************************************)
EXTENDS Integers, Sequences, FiniteSets, TLC

VARIABLES
    pin,        \* API._pin: the configured PIN (a number) or NoPin
    link,       \* API._client: "none" (not created), "down", "up" (is_connected)
    data,       \* API._data: the cached VogelsMotionMountData
    pin_type,   \* API._pin_type: last validated pin type or "None"
    cooldown,   \* API._authentication_cooldown
    dev,        \* the mount: characteristic -> stored bytes
    pc,         \* position of the operation in flight ("idle" when none)
    op,         \* the operation in flight: name, arguments, locals
    io,         \* the requests the operation in flight made on the link
    result,     \* how the last operation ended
    nops,       \* number of operations started
    fin,        \* input of the pure function under check
    fout,       \* its output
    net,        \* the links of the API so far: established, callbacks delivered
    cl,         \* the session client of client.py
    tk,         \* the other operation in flight, suspended in an await
    sub         \* start_notify was called on the link that is up

vars ==
    <<pin, link, data, pin_type, cooldown, dev, pc, op, io, result, nops, fin, fout, net, cl,
      tk, sub>>

-----------------------------------------------------------------------------
(* Bounds of the model *)

\* operations per behaviour
MaxOps == 2
\* preset slots modelled (the code has range(7))
NumPresets == 2
\* disconnects of the peer per behaviour
MaxDisconnects == 1

-----------------------------------------------------------------------------
(* Python values *)

NONE == <<>>
Some(x) == <<x>>
NoPin == 0 - 1

Min(a, b) == IF a < b THEN a ELSE b
Max(a, b) == IF a > b THEN a ELSE b

\* bytes: sequences of 0..255
RECURSIVE BitAnd(_, _)
BitAnd(a, b) ==
    IF a = 0 \/ b = 0 THEN 0
    ELSE (a % 2) * (b % 2) + 2 * BitAnd(a \div 2, b \div 2)

Bit(value, k) == (value \div (2 ^ k)) % 2 = 1

\* int(v).to_bytes(2, byteorder="big")
ToBytesBE2(v) == << (v \div 256) % 256, v % 256 >>
\* int(v).to_bytes(2, byteorder="big", signed=True)
ToBytesBE2Signed(v) == ToBytesBE2(IF v < 0 THEN v + 65536 ELSE v)
\* int.from_bytes(b, "big")
RECURSIVE FromBytesBE(_)
FromBytesBE(b) ==
    IF Len(b) = 0 THEN 0
    ELSE 256 * FromBytesBE(SubSeq(b, 1, Len(b) - 1)) + b[Len(b)]
\* int.from_bytes(b, "big", signed=True) of a 2-byte value
FromBytesBE2Signed(b) ==
    LET u == FromBytesBE(b) IN IF u >= 32768 THEN u - 65536 ELSE u
\* struct.unpack("<I", b)[0]
RECURSIVE FromBytesLE(_)
FromBytesLE(b) ==
    IF Len(b) = 0 THEN 0 ELSE b[1] + 256 * FromBytesLE(Tail(b))

\* b.ljust(n, b"\x00")
RECURSIVE Ljust(_, _)
Ljust(b, n) == IF Len(b) >= n THEN b ELSE Ljust(Append(b, 0), n)
\* b[:n]
Take(b, n) == SubSeq(b, 1, Min(n, Len(b)))
\* b[n:]
Drop(b, n) == SubSeq(b, n + 1, Len(b))
\* s.rstrip("\x00")
RECURSIVE Rstrip0(_)
Rstrip0(b) ==
    IF Len(b) > 0 /\ b[Len(b)] = 0 THEN Rstrip0(SubSeq(b, 1, Len(b) - 1)) ELSE b
\* b.startswith(p)
StartsWith(b, p) == Len(b) >= Len(p) /\ SubSeq(b, 1, Len(p)) = p

-----------------------------------------------------------------------------
(* Enumerations and tables *)

PinTypes == {"Authorized_user", "Supervisior"}
AuthTypes == {"Wrong", "Missing", "Control", "Full"}
ActionTypes == {"Control", "Settings"}
SettingsRequestTypes ==
    {"change_presets", "change_name", "disable_channel",
     "change_tv_on_off_detection", "change_default_position", "start_calibration"}

\* const.py is not part of the sources; the tables follow the protocol
\* description: on-codes indexed 0..4, one off-code per remembered channel
CHAR_AUTOMOVE_ON_OPTIONS == <<0, 4, 8, 12, 16>>
CHAR_AUTOMOVE_OFF_OPTIONS == <<1, 5, 9, 13, 17>>
automove_types == <<"hdmi_1", "hdmi_2", "hdmi_3", "hdmi_4", "hdmi_5">>

\* list.index(x) (0-based); -1 stands for the ValueError of a missing element
IndexOf(list, x) ==
    IF \E i \in 1..Len(list) : list[i] = x
    THEN (CHOOSE i \in 1..Len(list) : list[i] = x /\ \A j \in 1..(i - 1) : list[j] # x) - 1
    ELSE -1
InList(list, x) == \E i \in 1..Len(list) : list[i] = x

\* characteristics
CHAR_NAME == <<"NAME", 0>>
CHAR_WIDTH == <<"WIDTH", 0>>
CHAR_FREEZE == <<"FREEZE", 0>>
CHAR_AUTOMOVE == <<"AUTOMOVE", 0>>
CHAR_MULTI_PIN_FEATURES == <<"MULTI_PIN_FEATURES", 0>>
CHAR_PIN_SETTINGS == <<"PIN_SETTINGS", 0>>
CHAR_PIN_CHECK == <<"PIN_CHECK", 0>>
CHAR_AUTHENTICATE == <<"AUTHENTICATE", 0>>
CHAR_CHANGE_PIN == <<"CHANGE_PIN", 0>>
CHAR_DISTANCE == <<"DISTANCE", 0>>
CHAR_ROTATION == <<"ROTATION", 0>>
CHAR_PRESET == <<"PRESET", 0>>
CHAR_VERSIONS_CEB == <<"VERSIONS_CEB", 0>>
CHAR_VERSIONS_MCP == <<"VERSIONS_MCP", 0>>
CHAR_CALIBRATE == <<"CALIBRATE", 0>>
CHAR_DISABLE_CHANNEL == <<"DISABLE_CHANNEL", 0>>
CHAR_PRESET_UUIDS(i) == <<"PRESETS", i>>
CHAR_PRESET_NAMES_UUIDS(i) == <<"PRESET_NAMES", i>>

PresetIndexes == 0..(NumPresets - 1)

\* the characteristics whose value the mount stores
StoredChars ==
    {CHAR_NAME, CHAR_WIDTH, CHAR_FREEZE, CHAR_AUTOMOVE, CHAR_MULTI_PIN_FEATURES,
     CHAR_PIN_SETTINGS, CHAR_DISTANCE, CHAR_ROTATION, CHAR_VERSIONS_CEB,
     CHAR_VERSIONS_MCP}
    \cup {CHAR_PRESET_UUIDS(i) : i \in PresetIndexes}
    \cup {CHAR_PRESET_NAMES_UUIDS(i) : i \in PresetIndexes}
\* of these, the ones a write of the engine can replace
SettingChars ==
    {CHAR_NAME, CHAR_WIDTH, CHAR_FREEZE, CHAR_AUTOMOVE, CHAR_MULTI_PIN_FEATURES}
    \cup {CHAR_PRESET_UUIDS(i) : i \in PresetIndexes}
    \cup {CHAR_PRESET_NAMES_UUIDS(i) : i \in PresetIndexes}

-----------------------------------------------------------------------------
(* Inputs *)

\* names are strings of ASCII codes
NameA == <<65>>
NameB == <<66>>
NameC == <<67>>
Names == {NameA, NameB}
Widths == {1, 2}
AutomoveIds == {"off", "hdmi_1", "hdmi_2"}
Distances == {100, 101, -1}
Rotations == {-100, 101, -101}
FeatureBytes == {1, 2}
\* payloads of the authentication status characteristic
AuthPayloads ==
    { <<128, 128, 0, 0>>, <<128, 0, 0, 0>>, <<0, 0, 0, 0>>, <<4, 0, 0, 0>> }
Pins == {NoPin, 1234}

-----------------------------------------------------------------------------
(* api.py: pure helpers *)

\* API._encode_pin
_encode_pin(p, mode) ==
    LET low == p % 256
        high == (p \div 256) % 256
    IN  IF mode = "Supervisior" THEN <<low, (high + 64) % 256>> ELSE <<low, high>>

\* a decoding that takes start_calibration from bit 6
MultiPinFeaturesBit6(value) ==
    [change_presets |-> Bit(value, 0),
     change_name |-> Bit(value, 1),
     disable_channel |-> Bit(value, 2),
     change_tv_on_off_detection |-> Bit(value, 3),
     change_default_position |-> Bit(value, 4),
     start_calibration |-> Bit(value, 6)]

\* the MultiPinFeatures built by API._read_multi_pin_features from data[0]
MultiPinFeatures(value) ==
    [change_presets |-> Bit(value, 0),
     change_name |-> Bit(value, 1),
     disable_channel |-> Bit(value, 2),
     change_tv_on_off_detection |-> Bit(value, 3),
     change_default_position |-> Bit(value, 4),
     start_calibration |-> Bit(value, 7)]

B2I(b) == IF b THEN 1 ELSE 0
\* the byte API.set_multi_pin_features builds from the six flags
FeaturesByte(f) ==
    B2I(f.change_presets) + 2 * B2I(f.change_name) + 4 * B2I(f.disable_channel)
    + 8 * B2I(f.change_tv_on_off_detection) + 16 * B2I(f.change_default_position)
    + 128 * B2I(f.start_calibration)

\* API.has_permission on a given auth_type and cached multi_pin_features
has_permission(auth_type, multi_pin_features, action_type, settings_request_type) ==
    IF auth_type = "Full" THEN TRUE
    ELSE IF auth_type = "Control" /\ action_type = "Control" THEN TRUE
    ELSE IF auth_type = "Control"
         THEN IF multi_pin_features = NONE THEN FALSE
              ELSE IF settings_request_type \in SettingsRequestTypes
                   THEN multi_pin_features[1][settings_request_type]
                   ELSE FALSE
    ELSE FALSE

\* the VogelsMotionMountData() of API.__init__
InitData ==
    [connected |-> FALSE, name |-> NONE, distance |-> NONE, rotation |-> NONE,
     requested_distance |-> NONE, requested_rotation |-> NONE,
     presets |-> [i \in {} |-> NONE],
     width |-> NONE, freeze_preset_index |-> NONE,
     automove_type |-> "None", automove_id |-> NONE,
     pin_setting |-> "None",
     ceb_bl_version |-> NONE, mcp_hw_version |-> NONE,
     mcp_bl_version |-> NONE, mcp_fw_version |-> NONE,
     multi_pin_features |-> NONE, auth_type |-> "None"]

\* dict assignment d[k] = v
DictSet(d, k, v) == [i \in (DOMAIN d) \cup {k} |-> IF i = k THEN v ELSE d[i]]

\* API._read_name: the cache after decoding the bytes b
_read_name(d, b) == [d EXCEPT !.name = Some(Rstrip0(b))]
\* API._read_width
_read_width(d, b) == [d EXCEPT !.width = Some(b[1])]
\* API._read_freeze_preset
_read_freeze_preset(d, b) == [d EXCEPT !.freeze_preset_index = Some(b[1])]
\* API._read_multi_pin_features
_read_multi_pin_features(d, b) ==
    [d EXCEPT !.multi_pin_features = Some(MultiPinFeatures(b[1]))]
\* API._handle_distance_change
_handle_distance_change(d, b) == [d EXCEPT !.distance = Some(FromBytesBE(b))]
\* API._handle_rotation_change
_handle_rotation_change(d, b) == [d EXCEPT !.rotation = Some(FromBytesBE(b))]
\* bytes.decode("utf-8") succeeds on b (it raises UnicodeDecodeError otherwise)
InRange(x, lo, hi) == lo <= x /\ x <= hi
Cont(b, k) == Len(b) >= k /\ InRange(b[k], 128, 191)
RECURSIVE Utf8Decodes(_)
Utf8Decodes(b) ==
    IF Len(b) = 0 THEN TRUE
    ELSE IF b[1] < 128 THEN Utf8Decodes(Tail(b))
    ELSE IF InRange(b[1], 194, 223)
    THEN Cont(b, 2) /\ Utf8Decodes(SubSeq(b, 3, Len(b)))
    ELSE IF InRange(b[1], 224, 239)
    THEN /\ Cont(b, 2) /\ Cont(b, 3)
         /\ (b[1] = 224 => b[2] >= 160)
         /\ (b[1] = 237 => b[2] <= 159)
         /\ Utf8Decodes(SubSeq(b, 4, Len(b)))
    ELSE IF InRange(b[1], 240, 244)
    THEN /\ Cont(b, 2) /\ Cont(b, 3) /\ Cont(b, 4)
         /\ (b[1] = 240 => b[2] >= 144)
         /\ (b[1] = 244 => b[2] <= 143)
         /\ Utf8Decodes(SubSeq(b, 5, Len(b)))
    ELSE FALSE

\* API._read_preset raises at data[5:].decode("utf-8"), before its _update
_read_preset_raises(b1, b2) ==
    (b1 \o b2)[1] # 0 /\ ~Utf8Decodes(Drop(b1 \o b2, 5))

\* API._read_preset: b1, b2 the bytes of the two characteristics of slot i
\* (with name bytes that decode)
_read_preset(d, i, b1, b2) ==
    LET b == b1 \o b2
        preset ==
            IF b[1] # 0
            THEN Some([index |-> i,
                       name |-> Rstrip0(Drop(b, 5)),
                       distance |-> Max(0, Min(FromBytesBE(SubSeq(b, 2, 3)), 100)),
                       rotation |-> Max(-100, Min(FromBytesBE2Signed(SubSeq(b, 4, 5)), 100))])
            ELSE NONE
    IN  [d EXCEPT !.presets = DictSet(d.presets, i, preset)]
\* API._read_automove; the ValueError of list.index leaves the cache as it is
AutomoveKnown(b) ==
    LET id == FromBytesBE(b)
    IN  InList(CHAR_AUTOMOVE_ON_OPTIONS, id) \/ InList(CHAR_AUTOMOVE_OFF_OPTIONS, id)
_read_automove(d, b) ==
    LET id == FromBytesBE(b)
    IN  IF InList(CHAR_AUTOMOVE_ON_OPTIONS, id)
        THEN [d EXCEPT !.automove_type =
                           automove_types[IndexOf(CHAR_AUTOMOVE_ON_OPTIONS, id) + 1],
                       !.automove_id = Some(IndexOf(CHAR_AUTOMOVE_ON_OPTIONS, id))]
        ELSE IF InList(CHAR_AUTOMOVE_OFF_OPTIONS, id)
        THEN [d EXCEPT !.automove_type = "off",
                       !.automove_id = Some(IndexOf(CHAR_AUTOMOVE_OFF_OPTIONS, id))]
        ELSE d
\* API._read_pin_settings
_read_pin_settings(d, b) ==
    [d EXCEPT !.pin_setting =
        IF b[1] = 12 THEN "Deactivated"
        ELSE IF b[1] = 13 THEN "Single"
        ELSE IF b[1] = 15 THEN "Multi" ELSE "None"]
\* API._read_version_ceb / _read_version_mcp: the byte groups behind the
\* dot-separated strings
_read_versions(d, ceb, mcp) ==
    [d EXCEPT !.ceb_bl_version = Some(ceb),
              !.mcp_hw_version = Some(SubSeq(mcp, 1, 3)),
              !.mcp_bl_version = Some(SubSeq(mcp, 4, 5)),
              !.mcp_fw_version = Some(SubSeq(mcp, 6, 7))]

\* the order of the reads of API._read_current_data
RECURSIVE ReadPresetsFrom(_, _, _)
ReadPresetsFrom(d, v, i) ==
    IF i >= NumPresets THEN d
    ELSE ReadPresetsFrom(
            _read_preset(d, i, v[CHAR_PRESET_UUIDS(i)], v[CHAR_PRESET_NAMES_UUIDS(i)]),
            v, i + 1)
\* API._read_current_data, as far as the read of automove
ReadDataBeforeAutomove(d, v) ==
    LET d1 == _read_name(d, v[CHAR_NAME])
        d2 == _handle_distance_change(d1, v[CHAR_DISTANCE])
        d3 == _handle_rotation_change(d2, v[CHAR_ROTATION])
        d4 == ReadPresetsFrom(d3, v, 0)
        d5 == _read_width(d4, v[CHAR_WIDTH])
    IN  _read_freeze_preset(d5, v[CHAR_FREEZE])
\* API._read_current_data, complete
_read_current_data(d, v) ==
    LET d1 == _read_automove(ReadDataBeforeAutomove(d, v), v[CHAR_AUTOMOVE])
        d2 == _read_pin_settings(d1, v[CHAR_PIN_SETTINGS])
        d3 == _read_multi_pin_features(d2, v[CHAR_MULTI_PIN_FEATURES])
    IN  _read_versions(d3, v[CHAR_VERSIONS_CEB], v[CHAR_VERSIONS_MCP])
\* the characteristics API._read_current_data reads, in order
RECURSIVE PresetReads(_)
PresetReads(i) ==
    IF i >= NumPresets THEN <<>>
    ELSE << <<"read", CHAR_PRESET_UUIDS(i)>>, <<"read", CHAR_PRESET_NAMES_UUIDS(i)>> >>
         \o PresetReads(i + 1)
ReadsBeforeAutomove ==
    << <<"read", CHAR_NAME>>, <<"read", CHAR_DISTANCE>>, <<"read", CHAR_ROTATION>> >>
    \o PresetReads(0)
    \o << <<"read", CHAR_WIDTH>>, <<"read", CHAR_FREEZE>>, <<"read", CHAR_AUTOMOVE>> >>
ReadsAfterAutomove ==
    << <<"read", CHAR_PIN_SETTINGS>>, <<"read", CHAR_MULTI_PIN_FEATURES>>,
       <<"read", CHAR_VERSIONS_CEB>>, <<"read", CHAR_VERSIONS_MCP>> >>

-----------------------------------------------------------------------------
(* Outcomes of an operation *)

Ok == [exc |-> "ok", msg |-> "", cooldown |-> 0]
Running == [exc |-> "running", msg |-> "", cooldown |-> 0]
Raise(exc, msg) == [exc |-> exc, msg |-> msg, cooldown |-> 0]
\* APIAuthenticationError(message, cooldown)
APIAuthenticationError(msg, cd) ==
    [exc |-> "APIAuthenticationError", msg |-> msg, cooldown |-> cd]

NoOp ==
    [name |-> "none", arg |-> NONE, type |-> "None", srt |-> "None",
     writes |-> <<>>, expect |-> NONE, should_read_data |-> FALSE,
     tiers |-> <<>>, attempt |-> 0, auth_info |-> <<>>, pre |-> InitData,
     pre_link |-> "none"]

\* the mount at start-up
InitDev(fb) ==
    [c \in StoredChars |->
        IF c = CHAR_NAME THEN Ljust(NameA, 20)
        ELSE IF c = CHAR_WIDTH THEN <<1>>
        ELSE IF c = CHAR_FREEZE THEN <<1>>
        ELSE IF c = CHAR_AUTOMOVE THEN ToBytesBE2(1)
        ELSE IF c = CHAR_MULTI_PIN_FEATURES THEN <<fb>>
        ELSE IF c = CHAR_PIN_SETTINGS THEN <<15>>
        ELSE IF c = CHAR_DISTANCE THEN ToBytesBE2(20)
        ELSE IF c = CHAR_ROTATION THEN ToBytesBE2Signed(0 - 5)
        ELSE IF c = CHAR_VERSIONS_CEB THEN <<1, 0>>
        ELSE IF c = CHAR_VERSIONS_MCP THEN <<1, 0, 0, 2, 1, 3, 4>>
        ELSE IF c = CHAR_PRESET_UUIDS(0)
             THEN Ljust(<<1>> \o ToBytesBE2(10) \o ToBytesBE2Signed(0 - 5) \o NameA, 20)
        ELSE IF c[1] = "PRESETS" THEN Ljust(<<>>, 20)
        ELSE Ljust(<<>>, 17)]

\* the engine takes no input of the pure functions
NoInput == [kind |-> "none"]

\* no link yet: establish_connection calls that returned a client, deliveries
\* of the disconnected callback, and how many of those the peer caused
NoLinks == [established |-> 0, delivered |-> 0, lost |-> 0]
\* the session client is not in use
NoClient == [pc |-> "off"]
\* no other operation is in flight
NoTask == [pc |-> "idle", op |-> NoOp, io |-> <<>>, result |-> Ok]

Init ==
    /\ pin \in Pins
    /\ link = "none"
    /\ data = InitData
    /\ pin_type = "None"
    /\ cooldown = 0
    /\ \E fb \in FeatureBytes : dev = InitDev(fb)
    /\ pc = "idle"
    /\ op = NoOp
    /\ io = <<>>
    /\ result = Ok
    /\ nops = 0
    /\ fin = NoInput
    /\ fout = NONE
    /\ net = NoLinks
    /\ cl = NoClient
    /\ tk = NoTask
    /\ sub = FALSE

-----------------------------------------------------------------------------
(* Starting an operation: the code of the public method up to its first     *)
(* await                                                                    *)

\* the operation passes its validation and calls _connect for each write
Start(name, arg, type, srt, writes, expect) ==
    /\ pc = "idle"
    /\ nops < MaxOps
    /\ op' = [name |-> name, arg |-> arg, type |-> type, srt |-> srt,
              writes |-> writes, expect |-> expect, should_read_data |-> FALSE,
              tiers |-> <<>>, attempt |-> 0, auth_info |-> <<>>, pre |-> data,
              pre_link |-> link]
    /\ pc' = "connect"
    /\ result' = Running
    /\ io' = <<>>
    /\ nops' = nops + 1
    /\ UNCHANGED <<pin, link, data, pin_type, cooldown, dev, fin, fout, net, cl, tk, sub>>

\* the operation raises before any await
Reject(name, arg, res) ==
    /\ pc = "idle"
    /\ nops < MaxOps
    /\ op' = [NoOp EXCEPT !.name = name, !.arg = arg, !.pre = data, !.pre_link = link]
    /\ pc' = "idle"
    /\ result' = res
    /\ io' = <<>>
    /\ nops' = nops + 1
    /\ UNCHANGED <<pin, link, data, pin_type, cooldown, dev, fin, fout, net, cl, tk, sub>>

ServiceValidationError(msg) == Raise("ServiceValidationError", msg)

\* set_distance without its range check
set_distance_unchecked(distance) ==
    Start("set_distance", distance, "Control", "None",
          << <<CHAR_DISTANCE, ToBytesBE2(distance % 65536)>> >>, NONE)

\* API.set_distance
set_distance(distance) ==
    IF distance \notin 0..100
    THEN Reject("set_distance", distance, ServiceValidationError("invalid"))
    ELSE Start("set_distance", distance, "Control", "None",
               << <<CHAR_DISTANCE, ToBytesBE2(distance)>> >>, NONE)

\* API.set_rotation
set_rotation(rotation) ==
    IF rotation \notin (0 - 100)..100
    THEN Reject("set_rotation", rotation, ServiceValidationError("invalid"))
    ELSE Start("set_rotation", rotation, "Control", "None",
               << <<CHAR_ROTATION, ToBytesBE2Signed(rotation)>> >>, NONE)

\* API.set_name
set_name(name) ==
    IF Len(name) > 20
    THEN Reject("set_name", name, ServiceValidationError("invalid"))
    ELSE Start("set_name", name, "Settings", "change_name",
               << <<CHAR_NAME, Ljust(Take(name, 20), 20)>> >>, name)

\* API.set_tv_width
set_tv_width(width) ==
    IF width \notin 1..243
    THEN Reject("set_tv_width", width, ServiceValidationError("invalid"))
    ELSE Start("set_tv_width", width, "Settings", "None",
               << <<CHAR_WIDTH, <<width>> >> >>, width)

\* dict lookup d[k]: a KeyError when k is no key
HasKey(d, k) == k \in DOMAIN d

\* API.set_freeze_preset
set_freeze_preset(preset_index) ==
    IF preset_index \notin 0..NumPresets
    THEN Reject("set_freeze_preset", preset_index, ServiceValidationError("invalid"))
    ELSE IF preset_index = 0
    THEN Reject("set_freeze_preset", preset_index, ServiceValidationError("missing"))
    ELSE IF ~HasKey(data.presets, preset_index - 1)
    THEN Reject("set_freeze_preset", preset_index, Raise("KeyError", ""))
    ELSE IF data.presets[preset_index - 1] = NONE
    THEN Reject("set_freeze_preset", preset_index, ServiceValidationError("missing"))
    ELSE Start("set_freeze_preset", preset_index, "Settings", "change_default_position",
               << <<CHAR_FREEZE, <<preset_index>> >> >>, preset_index)

\* API.set_automove: new_id is the device code to write
AutomoveNewId(id) ==
    IF id = "off"
    THEN CHAR_AUTOMOVE_OFF_OPTIONS[
            (IF data.automove_id # NONE THEN data.automove_id[1] ELSE 0) + 1]
    ELSE CHAR_AUTOMOVE_ON_OPTIONS[IndexOf(automove_types, id) + 1]
set_automove(id) ==
    IF id # "off" /\ ~InList(automove_types, id)
    THEN Reject("set_automove", id, ServiceValidationError("invalid"))
    ELSE Start("set_automove", id, "Settings", "change_tv_on_off_detection",
               << <<CHAR_AUTOMOVE, ToBytesBE2(AutomoveNewId(id))>> >>,
               [id |-> AutomoveNewId(id), type |-> id])

\* Python's "a or b" for an optional bool a and a bool b
PyOr(a, b) == IF a = Some(TRUE) THEN TRUE ELSE b
NoFeatures ==
    [change_presets |-> FALSE, change_name |-> FALSE, disable_channel |-> FALSE,
     change_tv_on_off_detection |-> FALSE, change_default_position |-> FALSE,
     start_calibration |-> FALSE]
\* API.set_multi_pin_features: the merged flags
NewMultiPinFeatures(kwargs) ==
    LET multi_pin_features ==
            IF data.multi_pin_features # NONE THEN data.multi_pin_features[1]
            ELSE NoFeatures
    IN  [f \in SettingsRequestTypes |-> PyOr(kwargs[f], multi_pin_features[f])]
set_multi_pin_features(kwargs) ==
    Start("set_multi_pin_features", kwargs, "Settings", "None",
          << <<CHAR_MULTI_PIN_FEATURES, <<FeaturesByte(NewMultiPinFeatures(kwargs))>> >> >>,
          NewMultiPinFeatures(kwargs))

\* API.set_preset: a[1] the index, then the optional name, distance, rotation
PresetBytes(new_name, new_distance, new_rotation) ==
    <<1>> \o ToBytesBE2(new_distance) \o ToBytesBE2Signed(new_rotation) \o new_name
set_preset(preset_index, name, distance, rotation) ==
    LET arg == [index |-> preset_index, name |-> name,
                distance |-> distance, rotation |-> rotation]
    IN
    IF preset_index \notin PresetIndexes
    THEN Reject("set_preset", arg, Raise("KeyError", ""))
    ELSE IF distance = NONE \/ distance[1] \notin 0..100
    THEN Reject("set_preset", arg, ServiceValidationError("invalid"))
    ELSE IF rotation = NONE \/ rotation[1] \notin (0 - 100)..100
    THEN Reject("set_preset", arg, ServiceValidationError("invalid"))
    ELSE IF ~HasKey(data.presets, preset_index)
    THEN Reject("set_preset", arg, Raise("KeyError", ""))
    ELSE
    LET preset == data.presets[preset_index]
        new_name == IF name # NONE THEN name[1]
                    ELSE IF preset # NONE THEN preset[1].name
                    ELSE <<48 + preset_index>>
        b == PresetBytes(new_name, distance[1], rotation[1])
    IN  IF Len(new_name) > 32
        THEN Reject("set_preset", arg, ServiceValidationError("invalid"))
        ELSE Start("set_preset", arg, "Settings", "change_presets",
                   << <<CHAR_PRESET_UUIDS(preset_index), Ljust(Take(b, 20), 20)>>,
                      <<CHAR_PRESET_NAMES_UUIDS(preset_index), Ljust(Drop(b, 20), 17)>> >>,
                   [index |-> preset_index, name |-> new_name,
                    distance |-> distance[1], rotation |-> rotation[1]])

\* API.select_preset, lines 304-326: the first test reads the slot of an
\* index outside the range, the second the slot of an index inside it
select_preset(preset_index) ==
    LET arg == [index |-> preset_index]
    IN
    IF ~HasKey(data.presets, preset_index)
    THEN Reject("select_preset", arg, Raise("KeyError", ""))
    ELSE IF preset_index \notin PresetIndexes /\ data.presets[preset_index] # NONE
    THEN Reject("select_preset", arg, ServiceValidationError("invalid"))
    ELSE IF data.presets[preset_index] = NONE
    THEN Reject("select_preset", arg, ServiceValidationError("invalid"))
    ELSE Start("select_preset", arg, "Control", "None",
               << <<CHAR_PRESET, <<preset_index + 1>> >> >>, NONE)

\* API.delete_preset, lines 483-507: the same tests; bytes(0x01) is one
\* zero byte
delete_preset(preset_index) ==
    LET arg == [index |-> preset_index]
    IN
    IF ~HasKey(data.presets, preset_index)
    THEN Reject("delete_preset", arg, Raise("KeyError", ""))
    ELSE IF preset_index \notin PresetIndexes /\ data.presets[preset_index] # NONE
    THEN Reject("delete_preset", arg, ServiceValidationError("invalid"))
    ELSE IF data.presets[preset_index] = NONE
    THEN Reject("delete_preset", arg, ServiceValidationError("invalid"))
    ELSE Start("delete_preset", arg, "Settings", "change_presets",
               << <<CHAR_PRESET_UUIDS(preset_index), Ljust(<<0>>, 20)>> >>, NONE)

\* API.refresh_data
refresh_data == Start("refresh_data", NONE, "None", "None", <<>>, NONE)

\* PIN arguments are strings of characters: decimal digits, a character
\* str.isdigit accepts and int() refuses (superscript two), and a letter
DecimalChars == {"0", "1", "2", "3", "4"}
OtherDigitChars == {"sup2"}
\* str.isdigit
isdigit(s) == Len(s) > 0 /\ \A i \in 1..Len(s) : s[i] \in DecimalChars \cup OtherDigitChars
\* int(s) raises ValueError
IntRaises(s) == \E i \in 1..Len(s) : s[i] \notin DecimalChars
DigitOf(c) ==
    IF c = "0" THEN 0 ELSE IF c = "1" THEN 1 ELSE IF c = "2" THEN 2
    ELSE IF c = "3" THEN 3 ELSE 4
\* int(s)
RECURSIVE IntOf(_)
IntOf(s) ==
    IF s = <<>> THEN 0 ELSE 10 * IntOf(SubSeq(s, 1, Len(s) - 1)) + DigitOf(s[Len(s)])
Pin0000 == <<"0", "0", "0", "0">>

PinOps == {"set_authorised_user_pin", "set_supervisior_pin"}

\* API.set_authorised_user_pin, lines 575-599: the checks and the bytes
set_authorised_user_pin(p) ==
    LET remove == p = Pin0000
    IN  IF remove /\ data.pin_setting = "Multi"
        THEN Reject("set_authorised_user_pin", [pin |-> p],
                    ServiceValidationError("invalid"))
        ELSE IF Len(p) # 4
        THEN Reject("set_authorised_user_pin", [pin |-> p],
                    ServiceValidationError("invalid"))
        ELSE IF ~isdigit(p)
        THEN Reject("set_authorised_user_pin", [pin |-> p],
                    ServiceValidationError("invalid"))
        ELSE IF IntRaises(p)
        THEN Reject("set_authorised_user_pin", [pin |-> p], Raise("ValueError", ""))
        ELSE Start("set_authorised_user_pin", [pin |-> p], "Settings", "None",
                   << <<CHAR_CHANGE_PIN, _encode_pin(IntOf(p), "Authorized_user")>> >>,
                   NONE)

\* API.set_supervisior_pin, lines 623-652: the checks and the bytes
set_supervisior_pin(p) ==
    LET remove == p = Pin0000
    IN  IF remove /\ data.pin_setting = "Single"
        THEN Reject("set_supervisior_pin", [pin |-> p], ServiceValidationError("invalid"))
        ELSE IF data.pin_setting = "Deactivated"
        THEN Reject("set_supervisior_pin", [pin |-> p], ServiceValidationError("invalid"))
        ELSE IF Len(p) # 4
        THEN Reject("set_supervisior_pin", [pin |-> p], ServiceValidationError("invalid"))
        ELSE IF ~isdigit(p)
        THEN Reject("set_supervisior_pin", [pin |-> p], ServiceValidationError("invalid"))
        ELSE IF IntRaises(p)
        THEN Reject("set_supervisior_pin", [pin |-> p], Raise("ValueError", ""))
        ELSE Start("set_supervisior_pin", [pin |-> p], "Settings", "None",
                   << <<CHAR_CHANGE_PIN, _encode_pin(IntOf(p), "Supervisior")>> >>, NONE)

-----------------------------------------------------------------------------
(* API._connect, API._authenticate and the tail of each public method       *)

\* the exception a failed establish_connection or a missing device raises
APIConnectionDeviceNotFoundError == Raise("APIConnectionDeviceNotFoundError", "")
BleakError == Raise("BleakError", "")
BleakDeviceNotFoundError == Raise("BleakDeviceNotFoundError", "")
APIConnectionError == Raise("APIConnectionError", "")

\* except clauses that turn every exception but the missing device into
\* APIConnectionError
test_connection_except_all(res) ==
    IF res.exc = "BleakDeviceNotFoundError" THEN APIConnectionDeviceNotFoundError
    ELSE APIConnectionError

\* API.test_connection, lines 221-229: the except clauses around its body
test_connection_except(res) ==
    IF res.exc = "BleakDeviceNotFoundError" THEN APIConnectionDeviceNotFoundError
    ELSE IF res.exc = "APIAuthenticationError" THEN res
    ELSE APIConnectionError

\* the operation raises: nothing after the raise runs, and what the body
\* of test_connection raises passes through its except clauses
Fails(res) ==
    /\ pc' = "idle"
    /\ result' = IF op.name = "test_connection" THEN test_connection_except(res) ELSE res

\* a _connect that establishes a connection whether or not it is connected
ConnectAgain ==
    /\ pc = "connect"
    /\ pc' = "establish"
    /\ link' = IF link = "none" THEN "down" ELSE link
    /\ op' = [op EXCEPT !.should_read_data = TRUE]
    /\ UNCHANGED <<data, result>>
    /\ UNCHANGED <<pin, pin_type, cooldown, dev, io, nops, fin, fout, net, cl, tk, sub>>

\* API._connect, lines 801-813: _initialize_device and the is_connected test
Connect ==
    /\ pc = "connect"
    /\ IF op.name = "refresh_data" /\ link = "up"
       THEN \* refresh_data on a connected client: _authenticate, then read
            /\ pc' = "auth_check"
            /\ UNCHANGED <<link, data, op, result>>
       ELSE IF link = "none"
       THEN \E found \in BOOLEAN :
                IF found
                THEN /\ link' = "down"
                     /\ pc' = "establish"
                     /\ op' = [op EXCEPT !.should_read_data = TRUE]
                     /\ UNCHANGED <<data, result>>
                ELSE /\ Fails(APIConnectionDeviceNotFoundError)
                     /\ UNCHANGED <<link, data, op>>
       ELSE IF link = "down"
       THEN /\ pc' = "establish"
            /\ op' = [op EXCEPT !.should_read_data = TRUE]
            /\ UNCHANGED <<link, data, result>>
       ELSE /\ pc' = "auth_check"
            /\ op' = [op EXCEPT !.should_read_data = FALSE]
            /\ data' = [data EXCEPT !.connected = TRUE]
            /\ UNCHANGED <<link, result>>
    /\ UNCHANGED <<pin, pin_type, cooldown, dev, io, nops, fin, fout, net, cl, tk, sub>>

\* a connection that leaves the cache as it was
EstablishUnrecorded ==
    /\ pc = "establish"
    /\ \E ok \in BOOLEAN :
        IF ok
        THEN /\ link' = "up"
             /\ io' = Append(io, <<"connect">>)
             /\ net' = [net EXCEPT !.established = @ + 1]
             /\ pc' = "auth_check"
             /\ UNCHANGED <<result, data>>
        ELSE /\ Fails(BleakError)
             /\ io' = Append(io, <<"connect">>)
             /\ UNCHANGED <<link, data, net>>
    /\ UNCHANGED <<pin, pin_type, cooldown, dev, op, nops, fin, fout, cl, tk, sub>>

\* API._connect, lines 816-824: establish_connection and _update(connected=...)
Establish ==
    /\ pc = "establish"
    /\ \E ok \in BOOLEAN :
        IF ok
        THEN /\ link' = "up"
             /\ io' = Append(io, <<"connect">>)
             /\ data' = [data EXCEPT !.connected = TRUE]
             /\ net' = [net EXCEPT !.established = @ + 1]
             /\ pc' = "auth_check"
             /\ UNCHANGED result
        ELSE /\ Fails(BleakError)
             /\ io' = Append(io, <<"connect">>)
             /\ UNCHANGED <<link, data, net>>
    /\ UNCHANGED <<pin, pin_type, cooldown, dev, op, nops, fin, fout, cl, tk, sub>>

\* _check_authentication with the cooldown left as 3 * code - 10
_check_authentication_unclamped(d, cd, b) ==
    IF StartsWith(b, <<128, 128>>)
    THEN [ok |-> TRUE, data |-> [d EXCEPT !.auth_type = "Full"], cooldown |-> cd]
    ELSE IF StartsWith(b, <<128>>)
    THEN [ok |-> TRUE, data |-> [d EXCEPT !.auth_type = "Control"], cooldown |-> cd]
    ELSE [ok |-> FALSE, data |-> d, cooldown |-> 3 * FromBytesLE(b) - 10]

\* API._check_authentication on the payload b: the value returned, the cache
\* and the cooldown afterwards
_check_authentication(d, cd, b) ==
    IF StartsWith(b, <<128, 128>>)
    THEN [ok |-> TRUE, data |-> [d EXCEPT !.auth_type = "Full"], cooldown |-> cd]
    ELSE IF StartsWith(b, <<128>>)
    THEN [ok |-> TRUE, data |-> [d EXCEPT !.auth_type = "Control"], cooldown |-> cd]
    ELSE [ok |-> FALSE, data |-> d, cooldown |-> Max(0, 3 * FromBytesLE(b) - 10)]

\* an order that ignores the remembered pin type
authentication_types_unremembered == <<"Supervisior", "Authorized_user">>

\* API._authenticate, lines 938-948: the order of the pin types
authentication_types ==
    IF pin_type = "Authorized_user"
    THEN <<"Authorized_user", "Supervisior">>
    ELSE <<"Supervisior", "Authorized_user">>

\* where the operation goes on once _authenticate has returned
AfterAuthenticate ==
    IF op.name = "test_connection" THEN "test_done"
    ELSE IF op.name = "refresh_data" \/ op.writes = <<>> THEN "read_all" ELSE "write"

\* API._authenticate, lines 913 and 930-948: the first status read
AuthCheck ==
    /\ pc = "auth_check"
    /\ link = "up"
    /\ \E b \in AuthPayloads :
        LET r == _check_authentication(data, cooldown, b)
        IN  /\ io' = Append(io, <<"read", CHAR_PIN_CHECK>>)
            /\ cooldown' = r.cooldown
            /\ IF r.ok
               THEN /\ pc' = "auth_features"
                    /\ data' = r.data
                    /\ op' = [op EXCEPT !.auth_info = b]
               ELSE IF pin = NoPin
               THEN /\ pc' = "auth_missing"
                    /\ data' = [r.data EXCEPT !.auth_type = "Missing"]
                    /\ op' = [op EXCEPT !.auth_info = b]
               ELSE /\ pc' = "auth_write"
                    /\ data' = r.data
                    /\ op' = [op EXCEPT !.auth_info = b, !.tiers = authentication_types]
    /\ UNCHANGED <<pin, link, pin_type, dev, result, nops, fin, fout, net, cl, tk, sub>>

\* API._authenticate, lines 917-928 and 957-966: re-read the feature
\* bitmask, then check the permission of the action
AuthFeatures ==
    /\ pc = "auth_features"
    /\ link = "up"
    /\ LET d == _read_multi_pin_features(data, dev[CHAR_MULTI_PIN_FEATURES])
       IN  /\ data' = d
           /\ io' = Append(io, <<"read", CHAR_MULTI_PIN_FEATURES>>)
           /\ IF op.type # "None"
                 /\ ~has_permission(d.auth_type, d.multi_pin_features, op.type, op.srt)
              THEN Fails(APIAuthenticationError("permission", cooldown))
              ELSE /\ pc' = AfterAuthenticate
                   /\ UNCHANGED result
    /\ UNCHANGED <<pin, link, pin_type, cooldown, dev, op, nops, fin, fout, net, cl, tk, sub>>

\* API.disconnect inside _authenticate: the client disconnects and bleak
\* delivers the disconnected callback (API._handle_disconnect); on a client
\* that is not connected there is nothing to disconnect and no callback,
\* and the client test_connection opened has no callback
AuthDisconnect(msg) ==
    /\ link' = "down"
    /\ IF link = "up" /\ op.name # "test_connection"
       THEN /\ data' = [data EXCEPT !.connected = FALSE]
            /\ net' = [net EXCEPT !.delivered = @ + 1]
       ELSE UNCHANGED <<data, net>>
    /\ io' = Append(io, <<"disconnect">>)
    /\ sub' = FALSE
    /\ Fails(APIAuthenticationError(msg, cooldown))
    /\ UNCHANGED <<pin, pin_type, cooldown, dev, op, nops, fin, fout, cl, tk>>

\* _authenticate going on without a PIN as if it were authenticated
AuthMissingIgnored ==
    /\ pc = "auth_missing"
    /\ pc' = AfterAuthenticate
    /\ UNCHANGED <<pin, link, data, pin_type, cooldown, dev, op, io, result, nops, fin, fout, net, cl, tk, sub>>

\* API._authenticate, lines 931-936
AuthMissing ==
    /\ pc = "auth_missing"
    /\ AuthDisconnect("missing")

\* _authenticate raising after the last pin type failed without the call
\* of disconnect
AuthWrongConnected ==
    /\ pc = "auth_wrong"
    /\ Fails(APIAuthenticationError("invalid", cooldown))
    /\ UNCHANGED <<pin, link, data, pin_type, cooldown, dev, op, io, nops, fin, fout, net, cl, tk, sub>>

\* _authenticate starting over after the last pin type failed
AuthWrongRetrying ==
    /\ pc = "auth_wrong"
    /\ pc' = "auth_check"
    /\ UNCHANGED <<pin, link, data, pin_type, cooldown, dev, op, io, result, nops, fin, fout, net, cl, tk, sub>>

\* API._authenticate, lines 968-970
AuthWrong ==
    /\ pc = "auth_wrong"
    /\ AuthDisconnect("invalid")

\* API._authenticate_as, lines 888-892: write the encoded PIN
AuthWrite ==
    /\ pc = "auth_write"
    /\ link = "up"
    /\ io' = Append(io, <<"write", CHAR_AUTHENTICATE, _encode_pin(pin, Head(op.tiers))>>)
    /\ op' = [op EXCEPT !.attempt = 0]
    /\ pc' = "auth_poll"
    /\ UNCHANGED <<pin, link, data, pin_type, cooldown, dev, result, nops, fin, fout, net, cl, tk, sub>>

\* one status read more than the code makes
AuthAttemptsMore == 4 + 1

\* the number of status reads of one _authenticate_as (range(4))
AuthAttempts == 4

\* API._authenticate_as, lines 893-901, and the loop of _authenticate,
\* lines 950-968: one status read of the poll
AuthPoll ==
    /\ pc = "auth_poll"
    /\ link = "up"
    /\ \E b \in AuthPayloads :
        LET r == _check_authentication(data, cooldown, b)
            tier == Head(op.tiers)
        IN  /\ io' = Append(io, <<"read", CHAR_PIN_CHECK>>)
            /\ cooldown' = r.cooldown
            /\ IF r.ok
               THEN /\ pin_type' = tier
                    /\ data' = r.data
                    /\ op' = [op EXCEPT !.auth_info = b]
                    /\ pc' = IF tier = "Authorized_user" /\ op.type = "Settings"
                             THEN "auth_features" ELSE AfterAuthenticate
               ELSE IF op.attempt < AuthAttempts - 1
               THEN /\ op' = [op EXCEPT !.auth_info = b, !.attempt = @ + 1]
                    /\ pc' = "auth_poll"
                    /\ UNCHANGED <<pin_type, data>>
               ELSE IF Len(op.tiers) > 1
               THEN /\ op' = [op EXCEPT !.auth_info = b, !.tiers = Tail(@)]
                    /\ pc' = "auth_write"
                    /\ UNCHANGED <<pin_type, data>>
               ELSE /\ op' = [op EXCEPT !.auth_info = b, !.tiers = Tail(@)]
                    /\ data' = [r.data EXCEPT !.auth_type = "Wrong"]
                    /\ pc' = "auth_wrong"
                    /\ UNCHANGED pin_type
    /\ UNCHANGED <<pin, link, dev, result, nops, fin, fout, net, cl, tk, sub>>

\* VogelsMotionMountPinSettings: Deactivated, Single, Multi
PinSettingCodes == {12, 13, 15}

\* a value the mount may store in place of the one written (a name or a
\* width it adjusts to what it supports)
Adjusted(c) == IF c = CHAR_NAME THEN Ljust(NameC, 20) ELSE <<3>>

\* the mount on a write: it stores the value, silently keeps the old one,
\* or stores an adjusted value
WriteEffect(c, b) ==
    IF c \in {CHAR_NAME, CHAR_WIDTH}
    THEN {[dev EXCEPT ![c] = b], dev, [dev EXCEPT ![c] = Adjusted(c)]}
    ELSE IF c \in SettingChars THEN {[dev EXCEPT ![c] = b], dev}
    ELSE IF c = CHAR_CHANGE_PIN
    THEN \* a change of PIN leaves the mount with one of its pin settings
         {[dev EXCEPT ![CHAR_PIN_SETTINGS] = <<v>>] : v \in PinSettingCodes}
    ELSE {dev}

\* a return of _connect after which the value asked for is not recorded
ConnectReturnsUnrecorded(d) ==
    IF Len(op.writes) > 1
    THEN /\ pc' = "connect"
         /\ op' = [op EXCEPT !.writes = Tail(@)]
         /\ data' = d
         /\ UNCHANGED result
    ELSE IF op.name \in {"set_distance", "set_rotation", "refresh_data", "select_preset"}
    THEN /\ pc' = "idle"
         /\ data' = d
         /\ result' = Ok
         /\ UNCHANGED op
    ELSE /\ pc' = "readback"
         /\ data' = d
         /\ UNCHANGED <<op, result>>

\* the _connect call returns with cache d: the next _connect call of the
\* method, or the code after the last one up to the next await
ConnectReturns(d) ==
    IF Len(op.writes) > 1
    THEN /\ pc' = "connect"
         /\ op' = [op EXCEPT !.writes = Tail(@)]
         /\ data' = d
         /\ UNCHANGED result
    ELSE IF op.name = "set_distance"
    THEN /\ pc' = "idle"
         /\ data' = [d EXCEPT !.requested_distance = Some(op.arg)]
         /\ result' = Ok
         /\ UNCHANGED op
    ELSE IF op.name = "set_rotation"
    THEN /\ pc' = "idle"
         /\ data' = [d EXCEPT !.requested_rotation = Some(op.arg)]
         /\ result' = Ok
         /\ UNCHANGED op
    ELSE IF \/ op.name \in {"refresh_data", "select_preset"}
            \/ op.name \in PinOps /\ op.writes = <<>>
    THEN \* select_preset; refresh_data, also as the last statement of the
         \* PIN methods
         /\ pc' = "idle"
         /\ data' = d
         /\ result' = Ok
         /\ UNCHANGED op
    ELSE IF op.name \in PinOps
    THEN /\ pc' = "pin_readback"
         /\ data' = d
         /\ UNCHANGED <<op, result>>
    ELSE /\ pc' = "readback"
         /\ data' = d
         /\ UNCHANGED <<op, result>>

\* API._connect, lines 831-838: write_gatt_char
Write ==
    /\ pc = "write"
    /\ link = "up"
    /\ LET c == Head(op.writes)[1]
           b == Head(op.writes)[2]
       IN  /\ dev' \in WriteEffect(c, b)
           /\ io' = Append(io, <<"write", c, b>>)
    /\ IF op.should_read_data
       THEN /\ pc' = "read_all"
            /\ UNCHANGED <<data, op, result>>
       ELSE ConnectReturns(data)
    /\ UNCHANGED <<pin, link, pin_type, cooldown, nops, fin, fout, net, cl, tk, sub>>

\* API._connect, lines 840-843, and refresh_data, line 252:
\* _setup_notifications (new connection only) and _read_current_data
ReadAll ==
    /\ pc = "read_all"
    /\ link = "up"
    /\ io' = io \o (IF op.should_read_data
                    THEN << <<"start_notify", CHAR_DISTANCE>>,
                            <<"start_notify", CHAR_ROTATION>> >>
                    ELSE <<>>)
                \o ReadsBeforeAutomove
                \o (IF AutomoveKnown(dev[CHAR_AUTOMOVE]) THEN ReadsAfterAutomove ELSE <<>>)
    /\ IF AutomoveKnown(dev[CHAR_AUTOMOVE])
       THEN ConnectReturns(_read_current_data(data, dev))
       ELSE /\ data' = ReadDataBeforeAutomove(data, dev)
            /\ Fails(Raise("ValueError", ""))
            /\ UNCHANGED op
    /\ sub' = (sub \/ op.should_read_data)
    /\ UNCHANGED <<pin, link, pin_type, cooldown, dev, nops, fin, fout, net, cl, tk>>

-----------------------------------------------------------------------------
(* The read-back of the settings methods *)

APISettingsChangeNotStoredError == Raise("APISettingsChangeNotStoredError", "not_saved")

\* the characteristics the read-back of the method reads
ReadbackChars ==
    IF op.name = "set_name" THEN <<CHAR_NAME>>
    ELSE IF op.name = "set_tv_width" THEN <<CHAR_WIDTH>>
    ELSE IF op.name = "set_freeze_preset" THEN <<CHAR_FREEZE>>
    ELSE IF op.name = "set_automove" THEN <<CHAR_AUTOMOVE>>
    ELSE IF op.name = "set_multi_pin_features" THEN <<CHAR_MULTI_PIN_FEATURES>>
    ELSE <<CHAR_PRESET_UUIDS(op.arg.index), CHAR_PRESET_NAMES_UUIDS(op.arg.index)>>

\* the cache after the read of the method: _read_name, _read_width, ...
ReadbackData ==
    IF op.name = "set_name" THEN _read_name(data, dev[CHAR_NAME])
    ELSE IF op.name = "set_tv_width" THEN _read_width(data, dev[CHAR_WIDTH])
    ELSE IF op.name = "set_freeze_preset" THEN _read_freeze_preset(data, dev[CHAR_FREEZE])
    ELSE IF op.name = "set_automove" THEN _read_automove(data, dev[CHAR_AUTOMOVE])
    ELSE IF op.name = "set_multi_pin_features"
    THEN _read_multi_pin_features(data, dev[CHAR_MULTI_PIN_FEATURES])
    ELSE _read_preset(data, op.arg.index, dev[CHAR_PRESET_UUIDS(op.arg.index)],
                      dev[CHAR_PRESET_NAMES_UUIDS(op.arg.index)])

\* a comparison that accepts every read-back
ReadbackAccepted(d) == Ok

\* the comparison each method makes after its read, and what it raises
ReadbackResult(d) ==
    IF op.name = "set_name"
    THEN IF d.name # Some(op.expect) THEN ServiceValidationError("not_saved") ELSE Ok
    ELSE IF op.name = "set_tv_width"
    THEN IF d.width # Some(op.expect) THEN APISettingsChangeNotStoredError ELSE Ok
    ELSE IF op.name = "set_freeze_preset"
    THEN IF d.freeze_preset_index # Some(op.expect)
         THEN APISettingsChangeNotStoredError ELSE Ok
    ELSE IF op.name = "set_automove"
    THEN IF d.automove_id # Some(op.expect.id) \/ d.automove_type # op.expect.type
         THEN APISettingsChangeNotStoredError ELSE Ok
    ELSE IF op.name = "set_multi_pin_features"
    THEN IF d.multi_pin_features # Some(op.expect)
         THEN APISettingsChangeNotStoredError ELSE Ok
    ELSE IF op.name = "delete_preset"
    THEN IF d.presets[op.arg.index] # NONE THEN APISettingsChangeNotStoredError ELSE Ok
    ELSE IF d.presets[op.arg.index] # Some(op.expect)
         THEN ServiceValidationError("not_saved") ELSE Ok

\* the read after the write of set_name (380-384), set_preset (471-481),
\* delete_preset (508-513), set_tv_width (527-532), set_automove (565-573),
\* set_freeze_preset (691-696), set_multi_pin_features (753-766)
Readback ==
    /\ pc = "readback"
    /\ link = "up"
    /\ io' = io \o [i \in 1..Len(ReadbackChars) |-> <<"read", ReadbackChars[i]>>]
    /\ IF op.name = "set_automove" /\ ~AutomoveKnown(dev[CHAR_AUTOMOVE])
       THEN /\ Fails(Raise("ValueError", ""))
            /\ UNCHANGED data
       ELSE /\ data' = ReadbackData
            /\ Fails(ReadbackResult(ReadbackData))
    /\ UNCHANGED <<pin, link, pin_type, cooldown, dev, op, nops, fin, fout, net, cl, tk, sub>>

-----------------------------------------------------------------------------
(* The PIN methods after their write: read-back, disconnect, refresh *)

\* API.set_authorised_user_pin, lines 602-617, and API.set_supervisior_pin,
\* lines 655-665: the comparisons after _read_pin_settings
PinNotStored(name, remove, pin_setting) ==
    IF name = "set_authorised_user_pin"
    THEN (remove /\ pin_setting # "Deactivated") \/ (~remove /\ pin_setting = "Deactivated")
    ELSE (remove /\ pin_setting # "Single") \/ (~remove /\ pin_setting # "Multi")

\* API.set_authorised_user_pin, lines 600-617, and API.set_supervisior_pin,
\* lines 653-665: _read_pin_settings and the comparison
PinReadback ==
    /\ pc = "pin_readback"
    /\ link = "up"
    /\ io' = Append(io, <<"read", CHAR_PIN_SETTINGS>>)
    /\ LET d == _read_pin_settings(data, dev[CHAR_PIN_SETTINGS])
       IN  /\ data' = d
           /\ IF PinNotStored(op.name, op.arg.pin = Pin0000, d.pin_setting)
              THEN Fails(APISettingsChangeNotStoredError)
              ELSE /\ pc' = "pin_disconnect"
                   /\ UNCHANGED result
    /\ UNCHANGED <<pin, link, pin_type, cooldown, dev, op, nops, fin, fout, net, cl, tk, sub>>

\* API.set_authorised_user_pin, lines 619-620, and API.set_supervisior_pin,
\* lines 667-668: disconnect, then refresh_data, which finds the client not
\* connected and calls _connect()
PinDisconnect ==
    /\ pc = "pin_disconnect"
    /\ io' = Append(io, <<"disconnect">>)
    /\ IF link = "up"
       THEN /\ link' = "down"
            /\ data' = [data EXCEPT !.connected = FALSE]
            /\ net' = [net EXCEPT !.delivered = @ + 1]
       ELSE UNCHANGED <<link, data, net>>
    /\ sub' = FALSE
    /\ op' = [op EXCEPT !.writes = <<>>, !.type = "None"]
    /\ pc' = "connect"
    /\ UNCHANGED <<pin, pin_type, cooldown, dev, result, nops, fin, fout, cl, tk>>

-----------------------------------------------------------------------------
(* The callers *)

FeatureArgs ==
    {[f \in SettingsRequestTypes |-> IF f = g THEN Some(v) ELSE NONE] :
        g \in {"change_name"}, v \in BOOLEAN}

Call ==
    \/ \E distance \in Distances : set_distance(distance)
    \/ \E rotation \in Rotations : set_rotation(rotation)
    \/ \E name \in Names : set_name(name)
    \/ \E width \in Widths : set_tv_width(width)
    \/ \E preset_index \in 0..(NumPresets + 1) : set_freeze_preset(preset_index)
    \/ \E id \in AutomoveIds : set_automove(id)
    \/ \E kwargs \in FeatureArgs : set_multi_pin_features(kwargs)
    \/ \E i \in 0..NumPresets, name \in {Some(NameB)},
          distance \in {NONE, Some(30)}, rotation \in {Some(0 - 5)} :
            set_preset(i, name, distance, rotation)
    \/ refresh_data

Next ==
    \/ Call
    \/ Connect
    \/ Establish
    \/ AuthCheck
    \/ AuthFeatures
    \/ AuthMissing
    \/ AuthWrong
    \/ AuthWrite
    \/ AuthPoll
    \/ Write
    \/ ReadAll
    \/ Readback

Spec == Init /\ [][Next]_vars

-----------------------------------------------------------------------------
(* The life of the link: the peer going away, API.disconnect, and requests  *)
(* on a client that is no longer connected                                  *)

\* a callback that also forgets the pin type and the cooldown
_handle_disconnect_forgetting ==
    /\ link = "up"
    /\ net.lost < MaxDisconnects
    /\ ~(pc = "connect" /\ io = <<>>)
    /\ link' = "down"
    /\ data' = [data EXCEPT !.connected = FALSE]
    /\ pin_type' = "None"
    /\ cooldown' = 0
    /\ net' = [net EXCEPT !.delivered = @ + 1, !.lost = @ + 1]
    /\ sub' = FALSE
    /\ UNCHANGED <<pin, dev, pc, op, io, result, nops, fin, fout, cl, tk>>

\* API._handle_disconnect, the disconnected callback of the BleakClient: the
\* peer is gone, is_connected is False, and bleak calls the callback; while
\* no operation is in flight or while the one in flight is suspended in an
\* await (there is none between the call of a method and the is_connected
\* test of its first _connect)
_handle_disconnect ==
    /\ link = "up"
    /\ net.lost < MaxDisconnects
    /\ ~(pc = "connect" /\ io = <<>>)
    /\ link' = "down"
    /\ data' = [data EXCEPT !.connected = FALSE]
    /\ net' = [net EXCEPT !.delivered = @ + 1, !.lost = @ + 1]
    /\ sub' = FALSE
    /\ UNCHANGED <<pin, pin_type, cooldown, dev, pc, op, io, result, nops, fin, fout, cl, tk>>

\* API.disconnect, called while no operation is in flight: the disconnect of
\* the BleakClient, when there is one, and through it the callback when the
\* client was connected
disconnect ==
    /\ pc = "idle"
    /\ nops < MaxOps
    /\ op' = [NoOp EXCEPT !.name = "disconnect", !.pre = data, !.pre_link = link]
    /\ result' = Ok
    /\ nops' = nops + 1
    /\ io' = IF link = "none" THEN <<>> ELSE << <<"disconnect">> >>
    /\ IF link = "up"
       THEN /\ link' = "down"
            /\ data' = [data EXCEPT !.connected = FALSE]
            /\ net' = [net EXCEPT !.delivered = @ + 1]
       ELSE UNCHANGED <<link, data, net>>
    /\ sub' = FALSE
    /\ UNCHANGED <<pin, pin_type, cooldown, dev, pc, fin, fout, cl, tk>>

\* the positions at which the operation in flight makes a request on the
\* client: read_gatt_char, write_gatt_char, start_notify
RequestPositions ==
    {"auth_check", "auth_features", "auth_write", "auth_poll", "write", "read_all",
     "read_rest", "readback"}

\* the request of the operation in flight fails locally: the link of its
\* client was lost while the request was in flight or before the code made
\* the call, and bleak raises
RequestOnDeadLink ==
    /\ pc \in RequestPositions
    /\ link # "up"
    /\ io' = Append(io, <<"not_connected", pc>>)
    /\ Fails(BleakError)
    /\ UNCHANGED <<pin, link, data, pin_type, cooldown, dev, op, nops, fin, fout, net, cl, tk, sub>>

\* the callers of the link life cycle
LinkCall ==
    \/ set_distance(100)
    \/ set_name(NameB)
    \/ set_preset(0, Some(NameB), Some(30), Some(0 - 5))
    \/ refresh_data
    \/ disconnect

InitLink ==
    /\ Init
    /\ dev = InitDev(1)

NextLink ==
    \/ LinkCall
    \/ _handle_disconnect
    \/ RequestOnDeadLink
    \/ Connect
    \/ Establish
    \/ AuthCheck
    \/ AuthFeatures
    \/ AuthMissing
    \/ AuthWrong
    \/ AuthWrite
    \/ AuthPoll
    \/ Write
    \/ ReadAll
    \/ Readback

-----------------------------------------------------------------------------
(* The text entity of a preset name: set_preset with the name alone *)

\* PresetNameText.async_set_value: set_preset(preset_index, name=value); the
\* other callers pass every argument
PresetCall ==
    \/ \E i \in PresetIndexes : set_preset(i, Some(NameB), NONE, NONE)
    \/ set_preset(0, Some(NameB), Some(30), Some(0 - 5))
    \/ refresh_data

NextPreset ==
    \/ PresetCall
    \/ Connect
    \/ Establish
    \/ AuthCheck
    \/ AuthFeatures
    \/ AuthMissing
    \/ AuthWrong
    \/ AuthWrite
    \/ AuthPoll
    \/ Write
    \/ ReadAll
    \/ Readback

\* the API with the changes of a preset name among its operations
SpecPreset == InitLink /\ [][NextPreset]_vars

-----------------------------------------------------------------------------
(* The slots of the presets: selecting, changing and deleting one *)

SlotCall ==
    \/ \E i \in 0..NumPresets : select_preset(i)
    \/ \E i \in 0..NumPresets : delete_preset(i)
    \/ \E i \in 0..NumPresets : set_preset(i, Some(NameB), Some(30), Some(0 - 5))
    \/ refresh_data

NextSlot ==
    \/ SlotCall
    \/ Connect
    \/ Establish
    \/ AuthCheck
    \/ AuthFeatures
    \/ AuthMissing
    \/ AuthWrong
    \/ AuthWrite
    \/ AuthPoll
    \/ Write
    \/ ReadAll
    \/ Readback

\* the API with the operations on one slot among its operations
SpecSlot == InitLink /\ [][NextSlot]_vars

\* the steps of _authenticate; each is the completion of an await on a
\* request of bleak, which returns or raises
AuthSteps ==
    \/ AuthCheck
    \/ AuthFeatures
    \/ AuthMissing
    \/ AuthWrong
    \/ AuthWrite
    \/ AuthPoll
\* the same API when the event loop resumes a call of _authenticate that
\* can go on
SpecSlotFair == SpecSlot /\ WF_vars(AuthSteps)

-----------------------------------------------------------------------------
(* The changes of the PINs *)

\* the PINs a caller passes: to set, to remove, too short, with a letter,
\* with a digit that is no decimal digit
PinStrings ==
    {<<"1", "2", "3", "4">>, Pin0000, <<"1", "2", "3">>, <<"1", "2", "a", "4">>,
     <<"1", "2", "sup2", "4">>}

PinCall ==
    \/ \E p \in PinStrings : set_authorised_user_pin(p)
    \/ \E p \in PinStrings : set_supervisior_pin(p)
    \/ refresh_data

NextPin ==
    \/ PinCall
    \/ PinReadback
    \/ PinDisconnect
    \/ Connect
    \/ Establish
    \/ AuthCheck
    \/ AuthFeatures
    \/ AuthMissing
    \/ AuthWrong
    \/ AuthWrite
    \/ AuthPoll
    \/ Write
    \/ ReadAll

\* a mount in each of its pin settings
InitPin ==
    /\ Init
    /\ \E v \in PinSettingCodes : dev = [InitDev(1) EXCEPT ![CHAR_PIN_SETTINGS] = <<v>>]

-----------------------------------------------------------------------------
(* API.test_connection *)

\* API.test_connection, lines 203-207: _initialize_device
test_connection ==
    /\ pc = "idle"
    /\ nops < MaxOps
    /\ op' = [NoOp EXCEPT !.name = "test_connection", !.pre = data, !.pre_link = link]
    /\ io' = <<>>
    /\ nops' = nops + 1
    /\ IF link = "none"
       THEN \E found \in BOOLEAN :
                IF found
                THEN /\ link' = "down"
                     /\ pc' = "test_disconnect"
                     /\ result' = Running
                ELSE /\ pc' = "idle"
                     /\ result' = APIConnectionDeviceNotFoundError
                     /\ UNCHANGED link
       ELSE /\ pc' = "test_disconnect"
            /\ result' = Running
            /\ UNCHANGED link
    /\ UNCHANGED <<pin, data, pin_type, cooldown, dev, fin, fout, net, cl, tk, sub>>

\* API.test_connection, line 211: disconnect the client in use, whose
\* disconnected callback is _handle_disconnect
TestDisconnect ==
    /\ pc = "test_disconnect"
    /\ io' = Append(io, <<"disconnect">>)
    /\ IF link = "up"
       THEN /\ link' = "down"
            /\ data' = [data EXCEPT !.connected = FALSE]
            /\ net' = [net EXCEPT !.delivered = @ + 1]
       ELSE UNCHANGED <<link, data, net>>
    /\ sub' = FALSE
    /\ pc' = "test_establish"
    /\ UNCHANGED <<pin, pin_type, cooldown, dev, op, result, nops, fin, fout, cl, tk>>

\* what establish_connection does: it returns a client or raises
EstablishOutcomes == {"ok", "BleakDeviceNotFoundError", "BleakError"}

\* API.test_connection, lines 214-218: establish_connection without a
\* disconnected callback and without _update(connected=...)
TestEstablish ==
    /\ pc = "test_establish"
    /\ \E outcome \in EstablishOutcomes :
        IF outcome = "ok"
        THEN /\ link' = "up"
             /\ io' = Append(io, <<"connect">>)
             /\ net' = [net EXCEPT !.established = @ + 1]
             /\ pc' = "auth_check"
             /\ UNCHANGED result
        ELSE /\ Fails(Raise(outcome, ""))
             /\ io' = Append(io, <<"connect_failed", outcome>>)
             /\ UNCHANGED <<link, net>>
    /\ UNCHANGED <<pin, data, pin_type, cooldown, dev, op, nops, fin, fout, cl, tk, sub>>

\* the peer goes away while test_connection authenticates: its client has
\* no disconnected callback
TestLinkLost ==
    /\ op.name = "test_connection"
    /\ pc \in RequestPositions
    /\ link = "up"
    /\ net.lost < MaxDisconnects
    /\ link' = "down"
    /\ net' = [net EXCEPT !.lost = @ + 1]
    /\ UNCHANGED <<pin, data, pin_type, cooldown, dev, pc, op, io, result, nops, fin, fout, cl, tk, sub>>

\* API.test_connection, line 220: the disconnect after _authenticate returned
TestDone ==
    /\ pc = "test_done"
    /\ io' = Append(io, <<"disconnect">>)
    /\ link' = "down"
    /\ pc' = "idle"
    /\ result' = Ok
    /\ UNCHANGED <<pin, data, pin_type, cooldown, dev, op, nops, fin, fout, net, cl, tk, sub>>

\* the callers around a test of the connection
TestCall ==
    \/ test_connection
    \/ set_name(NameB)
    \/ refresh_data

NextTest ==
    \/ TestCall
    \/ TestDisconnect
    \/ TestEstablish
    \/ TestLinkLost
    \/ TestDone
    \/ RequestOnDeadLink
    \/ Connect
    \/ Establish
    \/ AuthCheck
    \/ AuthFeatures
    \/ AuthMissing
    \/ AuthWrong
    \/ AuthWrite
    \/ AuthPoll
    \/ Write
    \/ ReadAll
    \/ Readback

\* the API with tests of the connection among its operations
SpecTest == InitLink /\ [][NextTest]_vars

-----------------------------------------------------------------------------
(* The notifications of the distance and rotation characteristics *)

\* positions the mount moves to
MountDistances == {20, 55}
MountRotations == {0 - 5, 30}

\* the loop can run a callback: no operation is in flight, or the one in
\* flight is suspended in an await (there is none between the call of a
\* method and the is_connected test of its first _connect)
CallbackCanRun == ~(pc = "connect" /\ io = <<>>)

\* the mount moves to distance v and notifies: bleak calls
\* API._handle_distance_change with the two bytes of v
NotifyDistance ==
    /\ link = "up"
    /\ sub
    /\ CallbackCanRun
    /\ \E v \in MountDistances :
        /\ v # FromBytesBE(dev[CHAR_DISTANCE])
        /\ dev' = [dev EXCEPT ![CHAR_DISTANCE] = ToBytesBE2(v)]
        /\ data' = _handle_distance_change(data, ToBytesBE2(v))
    /\ UNCHANGED <<pin, link, pin_type, cooldown, pc, op, io, result, nops, fin, fout, net, cl, tk, sub>>

\* the mount turns to rotation v and notifies: bleak calls
\* API._handle_rotation_change with the two bytes of v, signed
NotifyRotation ==
    /\ link = "up"
    /\ sub
    /\ CallbackCanRun
    /\ \E v \in MountRotations :
        /\ v # FromBytesBE2Signed(dev[CHAR_ROTATION])
        /\ dev' = [dev EXCEPT ![CHAR_ROTATION] = ToBytesBE2Signed(v)]
        /\ data' = _handle_rotation_change(data, ToBytesBE2Signed(v))
    /\ UNCHANGED <<pin, link, pin_type, cooldown, pc, op, io, result, nops, fin, fout, net, cl, tk, sub>>

\* the callers while the mount moves
NotifyCall ==
    \/ set_distance(100)
    \/ set_name(NameB)
    \/ refresh_data

NextNotify ==
    \/ NotifyCall
    \/ NotifyDistance
    \/ NotifyRotation
    \/ Connect
    \/ Establish
    \/ AuthCheck
    \/ AuthFeatures
    \/ AuthMissing
    \/ AuthWrong
    \/ AuthWrite
    \/ AuthPoll
    \/ Write
    \/ ReadAll
    \/ Readback

\* the API while the mount moves and notifies
SpecNotify == InitLink /\ [][NextNotify]_vars

-----------------------------------------------------------------------------
(* The refresh while the mount moves and the link comes and goes:           *)
(* _read_current_data in two steps, with the callbacks between them         *)

\* API._read_current_data, lines 1000-1008, on the cache d: the presets and
\* everything after them
ReadRestBeforeAutomove(d, v) ==
    _read_freeze_preset(_read_width(ReadPresetsFrom(d, v, 0), v[CHAR_WIDTH]), v[CHAR_FREEZE])
ReadRest(d, v) ==
    LET d1 == _read_automove(ReadRestBeforeAutomove(d, v), v[CHAR_AUTOMOVE])
        d2 == _read_pin_settings(d1, v[CHAR_PIN_SETTINGS])
        d3 == _read_multi_pin_features(d2, v[CHAR_MULTI_PIN_FEATURES])
    IN  _read_versions(d3, v[CHAR_VERSIONS_CEB], v[CHAR_VERSIONS_MCP])

\* API._connect, lines 840-843, and _read_current_data, lines 995-999:
\* _setup_notifications on a new connection, then the reads of the name,
\* the distance and the rotation, each stored as it is read
ReadAllMoves ==
    /\ pc = "read_all"
    /\ link = "up"
    /\ io' = io \o (IF op.should_read_data
                    THEN << <<"start_notify", CHAR_DISTANCE>>,
                            <<"start_notify", CHAR_ROTATION>> >>
                    ELSE <<>>)
                \o << <<"read", CHAR_NAME>>, <<"read", CHAR_DISTANCE>>,
                      <<"read", CHAR_ROTATION>> >>
    /\ data' = _handle_rotation_change(
                    _handle_distance_change(_read_name(data, dev[CHAR_NAME]),
                                            dev[CHAR_DISTANCE]),
                    dev[CHAR_ROTATION])
    /\ sub' = (sub \/ op.should_read_data)
    /\ pc' = "read_rest"
    /\ UNCHANGED <<pin, link, pin_type, cooldown, dev, op, result, nops, fin, fout, net, cl, tk>>

\* a refresh that puts back the distance, the rotation and the connection
\* state the cache held when it began
ReadAllRestRestoring ==
    /\ pc = "read_rest"
    /\ link = "up"
    /\ io' = io \o PresetReads(0)
                \o << <<"read", CHAR_WIDTH>>, <<"read", CHAR_FREEZE>>,
                      <<"read", CHAR_AUTOMOVE>> >>
                \o ReadsAfterAutomove
    /\ ConnectReturns([ReadRest(data, dev) EXCEPT !.distance = op.pre.distance,
                                                  !.rotation = op.pre.rotation,
                                                  !.connected = op.pre.connected])
    /\ UNCHANGED <<pin, link, pin_type, cooldown, dev, nops, fin, fout, net, cl, tk, sub>>

\* API._read_current_data, lines 1000-1008: the reads of the presets, the
\* width, the freeze preset, automove, the pin settings, the features and
\* the versions
ReadAllRest ==
    /\ pc = "read_rest"
    /\ link = "up"
    /\ io' = io \o PresetReads(0)
                \o << <<"read", CHAR_WIDTH>>, <<"read", CHAR_FREEZE>>,
                      <<"read", CHAR_AUTOMOVE>> >>
                \o (IF AutomoveKnown(dev[CHAR_AUTOMOVE]) THEN ReadsAfterAutomove ELSE <<>>)
    /\ IF AutomoveKnown(dev[CHAR_AUTOMOVE])
       THEN ConnectReturns(ReadRest(data, dev))
       ELSE /\ data' = ReadRestBeforeAutomove(data, dev)
            /\ Fails(Raise("ValueError", ""))
            /\ UNCHANGED op
    /\ UNCHANGED <<pin, link, pin_type, cooldown, dev, nops, fin, fout, net, cl, tk, sub>>

\* the callers of the refresh
RefreshCall ==
    \/ refresh_data
    \/ disconnect

NextRefresh ==
    \/ RefreshCall
    \/ NotifyDistance
    \/ NotifyRotation
    \/ _handle_disconnect
    \/ RequestOnDeadLink
    \/ Connect
    \/ Establish
    \/ AuthCheck
    \/ AuthFeatures
    \/ AuthMissing
    \/ AuthWrong
    \/ AuthWrite
    \/ AuthPoll
    \/ ReadAllMoves
    \/ ReadAllRest

-----------------------------------------------------------------------------
(* Two operations of the API invoked concurrently: the methods are coroutines *)
(* on one event loop and take no lock, so that while one is suspended in an   *)
(* await the loop runs the other                                              *)

\* the positions at which the operation in flight is suspended in an await:
\* establish_connection, a request, or the disconnect of _authenticate
SuspendedPositions == RequestPositions \cup {"establish", "auth_missing", "auth_wrong"}

\* the event loop leaves the operation that is suspended (or has returned)
\* and runs the other one: it resumes it, or a caller invokes a new method
Switch ==
    /\ pc \in SuspendedPositions \cup {"idle"}
    /\ tk.pc # "idle" \/ (pc # "idle" /\ nops < MaxOps)
    /\ pc' = tk.pc
    /\ op' = tk.op
    /\ io' = tk.io
    /\ result' = tk.result
    /\ tk' = [pc |-> pc, op |-> op, io |-> io, result |-> result]
    /\ UNCHANGED <<pin, link, data, pin_type, cooldown, dev, nops, fin, fout, net, cl, sub>>

\* the callers of the concurrent run: two services
ConcCall ==
    \/ set_distance(100)
    \/ set_name(NameB)

NextConc ==
    \/ ConcCall
    \/ Switch
    \/ RequestOnDeadLink
    \/ Connect
    \/ Establish
    \/ AuthCheck
    \/ AuthFeatures
    \/ AuthMissing
    \/ AuthWrong
    \/ AuthWrite
    \/ AuthPoll
    \/ Write
    \/ ReadAll
    \/ Readback

\* two operations of the API on one event loop
SpecConc == InitLink /\ [][NextConc]_vars

-----------------------------------------------------------------------------
(* client.py: the pure helpers of the session client *)

\* pin.to_bytes(2, "little")
to_bytes_little2(p) == <<p % 256, (p \div 256) % 256>>

\* _encode_supervisior_pin: bytes([pin & 0xFF, ((pin >> 8) & 0xFF + 0x40) & 0xFF]);
\* in Python + binds tighter than &, so the mask is 0xFF + 0x40
_encode_supervisior_pin(p) ==
    <<BitAnd(p, 255), BitAnd(BitAnd(p \div 256, 255 + 64), 255)>>

\* _get_auth_type on the payload read
_get_auth_type(b) ==
    IF StartsWith(b, <<128, 128>>) THEN "Full"
    ELSE IF StartsWith(b, <<128>>) THEN "Control"
    ELSE "Wrong"

\* a record that takes the bitmask for the granular permissions whatever the
\* level
get_permissions_ungated(max_auth_type, value) ==
    [auth_type |-> max_auth_type, change_settings |-> max_auth_type = "Full",
     change_default_position |-> MultiPinFeatures(value).change_default_position,
     change_name |-> MultiPinFeatures(value).change_name,
     change_presets |-> MultiPinFeatures(value).change_presets,
     change_tv_on_off_detection |-> MultiPinFeatures(value).change_tv_on_off_detection,
     disable_channel |-> MultiPinFeatures(value).disable_channel,
     start_calibration |-> MultiPinFeatures(value).start_calibration]

\* get_permissions on the level _get_max_auth_type returned and the byte
\* _read_multi_pin_features_directly read
get_permissions(max_auth_type, value) ==
    IF max_auth_type = "Full"
    THEN [auth_type |-> max_auth_type, change_settings |-> TRUE,
          change_default_position |-> TRUE, change_name |-> TRUE,
          change_presets |-> TRUE, change_tv_on_off_detection |-> TRUE,
          disable_channel |-> TRUE, start_calibration |-> TRUE]
    ELSE IF max_auth_type = "Control"
    THEN [auth_type |-> max_auth_type, change_settings |-> FALSE,
          change_default_position |-> MultiPinFeatures(value).change_default_position,
          change_name |-> MultiPinFeatures(value).change_name,
          change_presets |-> MultiPinFeatures(value).change_presets,
          change_tv_on_off_detection |->
              MultiPinFeatures(value).change_tv_on_off_detection,
          disable_channel |-> MultiPinFeatures(value).disable_channel,
          start_calibration |-> MultiPinFeatures(value).start_calibration]
    ELSE [auth_type |-> max_auth_type, change_settings |-> FALSE,
          change_default_position |-> FALSE, change_name |-> FALSE,
          change_presets |-> FALSE, change_tv_on_off_detection |-> FALSE,
          disable_channel |-> FALSE, start_calibration |-> FALSE]

\* char_uuid == CHAR_PRESET_UUIDS: a str compared with a list of str
StrEqualsList == FALSE

\* VogelsMotionMountBluetoothClient._has_write_permission
_has_write_permission(char_uuid, permissions) ==
    \/ (StrEqualsList /\ permissions.change_presets)
    \/ (StrEqualsList /\ permissions.change_presets)
    \/ (char_uuid = CHAR_NAME /\ permissions.change_name)
    \/ (char_uuid = CHAR_DISABLE_CHANNEL /\ permissions.disable_channel)
    \/ (char_uuid = CHAR_FREEZE /\ permissions.change_tv_on_off_detection)
    \/ (char_uuid = CHAR_CALIBRATE /\ permissions.start_calibration)
    \/ permissions.change_settings

\* bytes(n): n zero bytes
ZeroBytes(n) == [i \in 1..n |-> 0]

\* VogelsMotionMountBluetoothClient.set_preset: the data of an occupied
\* preset; bytes(0x01) is one zero byte, and the rotation is encoded unsigned
\* (an OverflowError when it is negative, see ToBytesOverflows)
client_set_preset_data(name, distance, rotation) ==
    ZeroBytes(1) \o ToBytesBE2(distance) \o ToBytesBE2(rotation) \o name

\* VogelsMotionMountBluetoothClient.read_preset on the bytes of the two
\* characteristics of the slot
read_preset(index, b1, b2) ==
    LET b == b1 \o b2
    IN  [index |-> index,
         data |-> IF b[1] # 0
                  THEN Some([distance |-> Max(0, Min(FromBytesBE(SubSeq(b, 2, 3)), 100)),
                             name |-> Rstrip0(Drop(b, 5)),
                             rotation |-> Max(0 - 100,
                                              Min(FromBytesBE2Signed(SubSeq(b, 4, 5)), 100))])
                  ELSE NONE]

\* presets[index] = value on a Python list
ListAssign(list, index, value) ==
    IF index < Len(list)
    THEN [raises |-> FALSE, list |-> [list EXCEPT ![index + 1] = value]]
    ELSE [raises |-> TRUE, list |-> list]
\* the loop of read_presets of the client from slot index on, v the bytes
\* the mount holds for each slot
RECURSIVE read_presets_from(_, _, _)
read_presets_from(presets, v, index) ==
    IF index >= NumPresets THEN [raises |-> FALSE, presets |-> presets]
    ELSE LET r == ListAssign(presets, index, read_preset(index, v[index][1], v[index][2]))
         IN  IF r.raises THEN [raises |-> TRUE, presets |-> presets]
             ELSE read_presets_from(r.list, v, index + 1)
\* read_presets of the client: the list starts empty
read_presets(v) == read_presets_from(<<>>, v, 0)

\* VogelsMotionMountBluetoothClient.set_multi_pin_features: the byte written
client_set_multi_pin_features(features) ==
    B2I(features.change_presets) * (2 ^ 0) + B2I(features.change_name) * (2 ^ 1)
    + B2I(features.disable_channel) * (2 ^ 2)
    + B2I(features.change_tv_on_off_detection) * (2 ^ 3)
    + B2I(features.change_default_position) * (2 ^ 4)
    + B2I(features.start_calibration) * (2 ^ 7)

\* the _connect calls of api.py: action type, settings request type and the
\* characteristic written
ConnectCalls ==
    {[type |-> "Control", srt |-> "None", char |-> c] :
        c \in {CHAR_DISTANCE, CHAR_ROTATION, CHAR_PRESET}}
    \cup {[type |-> "Settings", srt |-> "change_name", char |-> CHAR_NAME]}
    \cup {[type |-> "Settings", srt |-> "change_presets", char |-> c] :
        c \in {CHAR_PRESET_UUIDS(i) : i \in PresetIndexes}
              \cup {CHAR_PRESET_NAMES_UUIDS(i) : i \in PresetIndexes}}
    \cup {[type |-> "Settings", srt |-> "change_tv_on_off_detection",
           char |-> CHAR_AUTOMOVE]}
    \cup {[type |-> "Settings", srt |-> "change_default_position",
           char |-> CHAR_FREEZE]}
    \cup {[type |-> "Settings", srt |-> "None", char |-> c] :
        c \in {CHAR_WIDTH, CHAR_CHANGE_PIN, CHAR_MULTI_PIN_FEATURES}}

-----------------------------------------------------------------------------
(* client.py: the session of VogelsMotionMountBluetoothClient *)

\* no characteristic
NoChar == <<"NONE", 0>>

\* no method of the coordinator is in flight
NoPinTask == [name |-> "none", remove |-> FALSE, pin_setting |-> "None", verified |-> FALSE]

\* self._client of the session client: assigned in __init__ only, to None
client_client == NONE

\* the client after construction: no session, no link established yet
NewClient ==
    [pc |-> "idle", session |-> NONE, client |-> 0, permissions |-> NONE,
     links |-> 0, up |-> {}, connected |-> NONE, name |-> "none", char |-> NoChar,
     result |-> "ok", log |-> <<>>, pre_up |-> {}, nops |-> 0, lost |-> 0,
     then |-> "idle", task |-> NoPinTask, data |-> NONE]

\* VogelsMotionMountBleCoordinator._connection_changed on self.data d, None
\* until a refresh has returned
_connection_changed(d, connected) ==
    IF d # NONE THEN Some([d[1] EXCEPT !.connected = connected]) ELSE d

\* `not pin`: no PIN is configured, or the PIN is 0
NotPin == pin = NoPin \/ pin = 0

\* a method that reads or writes one characteristic: _read / _write call
\* _connect first
client_call(name, char) ==
    /\ cl.pc = "idle"
    /\ cl.nops < MaxOps
    /\ cl' = [cl EXCEPT !.pc = "connect", !.name = name, !.char = char,
                        !.result = "running", !.log = <<>>, !.pre_up = cl.up,
                        !.nops = @ + 1, !.then = "idle", !.task = NoPinTask]
    /\ UNCHANGED <<pin, link, data, pin_type, cooldown, dev, pc, op, io, result, nops, fin, fout, net, tk, sub>>

\* read_distance: _read(CHAR_DISTANCE_UUID)
client_read_distance == client_call("read", CHAR_DISTANCE)

\* set_name: _write(CHAR_NAME_UUID, ...)
client_set_name == client_call("write", CHAR_NAME)

\* select_preset: _write(CHAR_PRESET_UUID, ...)
client_select_preset == client_call("write", CHAR_PRESET)

\* VogelsMotionMountBluetoothClient.disconnect: the transport disconnect of
\* self._client when it is set
client_disconnect ==
    /\ cl.pc = "idle"
    /\ cl.nops < MaxOps
    /\ cl' = [cl EXCEPT !.name = "disconnect", !.char = NoChar, !.result = "ok",
                        !.pre_up = cl.up, !.nops = @ + 1,
                        !.log = IF client_client # NONE
                                THEN << <<"disconnect", NoChar, client_client[1]>> >>
                                ELSE <<>>,
                        !.up = IF client_client # NONE
                               THEN @ \ {client_client[1]} ELSE @,
                        !.session = IF client_client # NONE /\ client_client[1] \in cl.up
                                    THEN NONE ELSE @,
                        !.connected = IF client_client # NONE /\ client_client[1] \in cl.up
                                      THEN Some(FALSE) ELSE @,
                        !.data = IF client_client # NONE /\ client_client[1] \in cl.up
                                 THEN _connection_changed(@, FALSE) ELSE @]
    /\ UNCHANGED <<pin, link, data, pin_type, cooldown, dev, pc, op, io, result, nops, fin, fout, net, tk, sub>>

\* VogelsMotionMountBluetoothClient._connect, lines 286-287: the session
\* stored is returned
client_connect ==
    /\ cl.pc = "connect"
    /\ cl' = [cl EXCEPT !.pc = IF cl.session # NONE THEN "request" ELSE "establish"]
    /\ UNCHANGED <<pin, link, data, pin_type, cooldown, dev, pc, op, io, result, nops, fin, fout, net, tk, sub>>

\* VogelsMotionMountBluetoothClient._connect, lines 289-294:
\* establish_connection returns a new connected client, or raises
client_establish ==
    /\ cl.pc = "establish"
    /\ \E ok \in BOOLEAN :
        IF ok
        THEN cl' = [cl EXCEPT !.pc = "permissions", !.links = @ + 1,
                              !.client = cl.links + 1, !.up = @ \cup {cl.links + 1},
                              !.log = Append(@, <<"connect", NoChar, cl.links + 1>>)]
        ELSE cl' = [cl EXCEPT !.pc = "idle", !.result = "BleakError",
                              !.log = Append(@, <<"connect", NoChar, 0>>)]
    /\ UNCHANGED <<pin, link, data, pin_type, cooldown, dev, pc, op, io, result, nops, fin, fout, net, tk, sub>>

\* the requests of _get_max_auth_type and get_permissions on the payloads
\* b1 and b2 of the status reads
PermissionRequests(c, b1) ==
    (IF NotPin
     THEN << <<"read", CHAR_PIN_CHECK, c>> >>
     ELSE << <<"write", CHAR_AUTHENTICATE, c>>, <<"read", CHAR_PIN_CHECK, c>> >>
          \o (IF _get_auth_type(b1) = "Wrong"
               THEN << <<"write", CHAR_AUTHENTICATE, c>>, <<"read", CHAR_PIN_CHECK, c>> >>
               ELSE <<>>))

\* _get_max_auth_type on the payloads b1 and b2 of the status reads
_get_max_auth_type(b1, b2) ==
    IF NotPin \/ _get_auth_type(b1) # "Wrong"
    THEN _get_auth_type(b1) ELSE _get_auth_type(b2)

\* VogelsMotionMountBluetoothClient._connect, line 298: get_permissions on
\* the new client; a request on a client that is not connected raises
client_get_permissions ==
    /\ cl.pc = "permissions"
    /\ IF cl.client \notin cl.up
       THEN cl' = [cl EXCEPT !.pc = "idle", !.result = "BleakError",
                             !.log = Append(@, <<"not_connected", NoChar, cl.client>>)]
       ELSE \E b1 \in AuthPayloads, b2 \in AuthPayloads :
                LET level == _get_max_auth_type(b1, b2)
                IN  cl' = [cl EXCEPT
                        !.pc = "store",
                        !.permissions =
                            Some(get_permissions(level, dev[CHAR_MULTI_PIN_FEATURES][1])),
                        !.log = @ \o PermissionRequests(cl.client, b1)
                                  \o (IF level = "Control"
                                       THEN << <<"read", CHAR_MULTI_PIN_FEATURES, cl.client>> >>
                                       ELSE <<>>)]
    /\ UNCHANGED <<pin, link, data, pin_type, cooldown, dev, pc, op, io, result, nops, fin, fout, net, tk, sub>>

\* VogelsMotionMountBluetoothClient._connect, lines 296-302: the session is
\* stored and the callbacks are called
client_store ==
    /\ cl.pc = "store"
    /\ cl' = [cl EXCEPT !.pc = "request",
                        !.session = Some([client |-> cl.client,
                                          permissions |-> cl.permissions[1]]),
                        !.connected = Some(cl.client \in cl.up),
                        !.data = _connection_changed(@, cl.client \in cl.up)]
    /\ UNCHANGED <<pin, link, data, pin_type, cooldown, dev, pc, op, io, result, nops, fin, fout, net, tk, sub>>

\* _read, line 312, and _write, lines 318-320, on the session _connect
\* returned
client_request ==
    /\ cl.pc = "request"
    /\ LET session_data == cl.session[1]
       IN  IF cl.name = "write"
              /\ ~_has_write_permission(cl.char, session_data.permissions)
           THEN cl' = [cl EXCEPT !.pc = "idle", !.result = "APIAuthenticationError"]
           ELSE cl' = [cl EXCEPT
                   !.pc = IF session_data.client \in cl.up THEN cl.then ELSE "idle",
                   !.log = Append(@, <<cl.name, cl.char, session_data.client>>),
                   !.result = IF session_data.client \notin cl.up THEN "BleakError"
                              ELSE IF cl.then = "idle" THEN "ok" ELSE "running"]
    /\ UNCHANGED <<pin, link, data, pin_type, cooldown, dev, pc, op, io, result, nops, fin, fout, net, tk, sub>>

\* VogelsMotionMountBluetoothClient._handle_disconnect, the disconnected
\* callback of a link that is lost; while no method is in flight or while
\* the one in flight is suspended in the await of establish_connection or of
\* the last request of get_permissions
client_handle_disconnect ==
    /\ cl.pc \in {"idle", "permissions", "store"}
    /\ cl.lost < MaxDisconnects
    /\ \E c \in cl.up :
        cl' = [cl EXCEPT !.up = @ \ {c}, !.session = NONE,
                         !.connected = Some(FALSE), !.lost = @ + 1,
                         !.data = _connection_changed(@, FALSE)]
    /\ UNCHANGED <<pin, link, data, pin_type, cooldown, dev, pc, op, io, result, nops, fin, fout, net, tk, sub>>

InitClient ==
    /\ pin \in Pins
    /\ link = "none"
    /\ data = InitData
    /\ pin_type = "None"
    /\ cooldown = 0
    /\ \E fb \in FeatureBytes : dev = InitDev(fb)
    /\ pc = "client"
    /\ op = NoOp
    /\ io = <<>>
    /\ result = Ok
    /\ nops = 0
    /\ fin = NoInput
    /\ fout = NONE
    /\ net = NoLinks
    /\ cl = NewClient
    /\ tk = NoTask
    /\ sub = FALSE

NextClient ==
    \/ client_read_distance
    \/ client_set_name
    \/ client_select_preset
    \/ client_disconnect
    \/ client_connect
    \/ client_establish
    \/ client_get_permissions
    \/ client_store
    \/ client_request
    \/ client_handle_disconnect

\* VogelsMotionMountBleCoordinator.set_authorised_user_pin, line 116, and
\* set_supervisior_pin, line 219: the set method of the client, a _write to
\* the change-PIN characteristic
coordinator_set_pin(name, remove) ==
    /\ cl.pc = "idle"
    /\ cl.nops < MaxOps
    /\ cl' = [cl EXCEPT !.pc = "connect", !.name = "write", !.char = CHAR_CHANGE_PIN,
                        !.result = "running", !.log = <<>>, !.pre_up = cl.up,
                        !.nops = @ + 1, !.then = "pin_read",
                        !.task = [name |-> name, remove |-> remove,
                                  pin_setting |-> "None", verified |-> FALSE]]
    /\ UNCHANGED <<pin, link, data, pin_type, cooldown, dev, pc, op, io, result, nops, fin, fout, net, tk, sub>>

coordinator_set_authorised_user_pin ==
    \E remove \in BOOLEAN : coordinator_set_pin("set_authorised_user_pin", remove)
coordinator_set_supervisior_pin ==
    \E remove \in BOOLEAN : coordinator_set_pin("set_supervisior_pin", remove)

\* coordinator.py, lines 118-137 and 220-240: read_pin_settings on the
\* session stored, the comparison, and disconnect of the client, which
\* disconnects self._client when it is set
coordinator_pin_read ==
    /\ cl.pc = "pin_read"
    /\ LET session_data == cl.session[1]
           pin_setting == _read_pin_settings(InitData, dev[CHAR_PIN_SETTINGS]).pin_setting
           log == Append(cl.log, <<"read", CHAR_PIN_SETTINGS, session_data.client>>)
       IN  IF session_data.client \notin cl.up
           THEN cl' = [cl EXCEPT !.pc = "idle", !.then = "idle", !.log = log,
                                 !.result = "BleakError"]
           ELSE IF PinNotStored(cl.task.name, cl.task.remove, pin_setting)
           THEN cl' = [cl EXCEPT !.pc = "idle", !.then = "idle", !.log = log,
                                 !.task.pin_setting = pin_setting,
                                 !.result = "ServiceValidationError"]
           ELSE cl' = [cl EXCEPT
                   !.pc = "update", !.then = "idle",
                   !.task.pin_setting = pin_setting, !.task.verified = TRUE,
                   !.log = IF client_client # NONE
                           THEN Append(log, <<"disconnect", NoChar, client_client[1]>>)
                           ELSE log,
                   !.up = IF client_client # NONE THEN @ \ {client_client[1]} ELSE @,
                   !.session = IF client_client # NONE /\ client_client[1] \in cl.up
                               THEN NONE ELSE @,
                   !.connected = IF client_client # NONE /\ client_client[1] \in cl.up
                                 THEN Some(FALSE) ELSE @,
                   !.data = IF client_client # NONE /\ client_client[1] \in cl.up
                            THEN _connection_changed(@, FALSE) ELSE @]
    /\ UNCHANGED <<pin, link, data, pin_type, cooldown, dev, pc, op, io, result, nops, fin, fout, net, tk, sub>>

\* the reads of coordinator._read_data up to the presets, on the client c
UpdateReads(c) ==
    << <<"read", CHAR_AUTOMOVE, c>>, <<"read", CHAR_DISTANCE, c>>,
       <<"read", CHAR_FREEZE, c>>, <<"read", CHAR_MULTI_PIN_FEATURES, c>>,
       <<"read", CHAR_NAME, c>>, <<"read", CHAR_PIN_SETTINGS, c>>,
       <<"read", CHAR_PRESET_UUIDS(0), c>>, <<"read", CHAR_PRESET_NAMES_UUIDS(0), c>> >>

\* VogelsMotionMountBleCoordinator.refresh_data, lines 79-81:
\* _async_update_data, that is _read_data, whose first await is
\* read_automove
coordinator_refresh_data ==
    /\ cl.pc = "idle"
    /\ cl.nops < MaxOps
    /\ cl' = [cl EXCEPT !.pc = "connect", !.name = "read", !.char = CHAR_AUTOMOVE,
                        !.result = "running", !.log = <<>>, !.pre_up = cl.up,
                        !.nops = @ + 1, !.then = "update", !.task = NoPinTask]
    /\ UNCHANGED <<pin, link, data, pin_type, cooldown, dev, pc, op, io, result, nops, fin, fout, net, tk, sub>>

\* coordinator.py, lines 138 and 241: _async_update_data, that is
\* _read_data (lines 282-297), on a session that is still stored; the
\* keyword connected is evaluated after the first read, from self.data; the
\* reads get as far as read_presets; the record returned becomes self.data
coordinator_update ==
    /\ cl.pc = "update"
    /\ cl.session # NONE
    /\ LET session_data == cl.session[1]
           v == [i \in PresetIndexes |->
                    <<dev[CHAR_PRESET_UUIDS(i)], dev[CHAR_PRESET_NAMES_UUIDS(i)]>>]
           connected == IF cl.data # NONE THEN cl.data[1].connected ELSE FALSE
           reads == IF cl.task.name = "none"
                    THEN Tail(UpdateReads(session_data.client))
                    ELSE UpdateReads(session_data.client)
       IN  cl' = [cl EXCEPT
               !.pc = "idle",
               !.log = @ \o reads,
               !.data = IF read_presets(v).raises THEN @
                        ELSE Some([connected |-> connected]),
               !.result = IF read_presets(v).raises THEN "IndexError" ELSE "ok"]
    /\ UNCHANGED <<pin, link, data, pin_type, cooldown, dev, pc, op, io, result, nops, fin, fout, net, tk, sub>>

InitPinClient ==
    /\ pin \in Pins
    /\ link = "none"
    /\ data = InitData
    /\ pin_type = "None"
    /\ cooldown = 0
    /\ \E v \in PinSettingCodes : dev = [InitDev(1) EXCEPT ![CHAR_PIN_SETTINGS] = <<v>>]
    /\ pc = "client"
    /\ op = NoOp
    /\ io = <<>>
    /\ result = Ok
    /\ nops = 0
    /\ fin = NoInput
    /\ fout = NONE
    /\ net = NoLinks
    /\ cl = NewClient
    /\ tk = NoTask
    /\ sub = FALSE

NextPinClient ==
    \/ coordinator_set_authorised_user_pin
    \/ coordinator_set_supervisior_pin
    \/ coordinator_pin_read
    \/ coordinator_update
    \/ client_connect
    \/ client_establish
    \/ client_get_permissions
    \/ client_store
    \/ client_request

\* the changes of the PINs through the API and through the coordinator
SpecPin == (InitPin \/ InitPinClient) /\ [][NextPin \/ NextPinClient]_vars

\* the life of the link in api.py and in client.py
SpecLink == (InitLink \/ InitClient) /\ [][NextLink \/ NextClient]_vars

NextRefreshClient ==
    \/ coordinator_refresh_data
    \/ coordinator_update
    \/ client_connect
    \/ client_establish
    \/ client_get_permissions
    \/ client_store
    \/ client_request
    \/ client_handle_disconnect

\* the refresh of the API and the refresh of the coordinator
SpecRefresh == (InitLink \/ InitClient) /\ [][NextRefresh \/ NextRefreshClient]_vars

-----------------------------------------------------------------------------
(* Unloading: API.unload and the disconnected callback of the link it tears *)
(* down. _initialize_device sets _device and _client together and unload    *)
(* clears them together: link = "none" is the API without device handle and *)
(* without client                                                           *)

\* a disconnected callback of a link that is no longer up has not been
\* delivered yet
CallbackPending == net.established > net.delivered + (IF link = "up" THEN 1 ELSE 0)

\* API.unload up to the await of the disconnect of the client: the client
\* is asked to disconnect when there is one, and is_connected is False from
\* then on
unload ==
    /\ pc = "idle"
    /\ nops < MaxOps
    /\ op' = [NoOp EXCEPT !.name = "unload", !.pre = data, !.pre_link = link]
    /\ pc' = "unload"
    /\ result' = Running
    /\ nops' = nops + 1
    /\ io' = IF link = "none" THEN <<>> ELSE << <<"disconnect">> >>
    /\ link' = IF link = "up" THEN "down" ELSE link
    /\ sub' = FALSE
    /\ UNCHANGED <<pin, data, pin_type, cooldown, dev, fin, fout, net, cl, tk>>

\* API.unload after the await: the device handle and the client are dropped
UnloadReturns ==
    /\ pc = "unload"
    /\ link' = "none"
    /\ pc' = "idle"
    /\ result' = Ok
    /\ UNCHANGED <<pin, data, pin_type, cooldown, dev, op, io, nops, fin, fout, net, cl, tk, sub>>

\* API._handle_disconnect called by the transport for a link that the API
\* asked to disconnect: while unload is suspended in its await, or after it
\* has returned (the transport schedules the callback, the code does not
\* wait for it); not between the call of a method and the is_connected
\* test of its first _connect, where there is no await
UnloadCallback ==
    /\ CallbackPending
    /\ ~(pc = "connect" /\ io = <<>>)
    /\ data' = IF link = "none" THEN data ELSE [data EXCEPT !.connected = (link = "up")]
    /\ net' = [net EXCEPT !.delivered = @ + 1]
    /\ UNCHANGED <<pin, link, pin_type, cooldown, dev, pc, op, io, result, nops, fin, fout, cl, tk, sub>>

\* the callers around an unload
UnloadCall ==
    \/ set_distance(100)
    \/ set_name(NameB)
    \/ refresh_data
    \/ unload

NextUnload ==
    \/ UnloadCall
    \/ UnloadReturns
    \/ UnloadCallback
    \/ _handle_disconnect
    \/ RequestOnDeadLink
    \/ Connect
    \/ Establish
    \/ AuthCheck
    \/ AuthFeatures
    \/ AuthMissing
    \/ AuthWrong
    \/ AuthWrite
    \/ AuthPoll
    \/ Write
    \/ ReadAll
    \/ Readback

SpecUnload == InitLink /\ [][NextUnload]_vars

-----------------------------------------------------------------------------
(* The pure functions applied to inputs drawn at the start *)

PinValues == 0..9999
ByteValues == {0, 1, 3, 4, 128, 255}
\* 4-byte payloads; the top byte stays within what 3 * code - 10 allows in
\* 32-bit arithmetic
StatusPayloads ==
    {<<a, b, c, d>> : a \in ByteValues, b \in ByteValues, c \in {0, 128}, d \in {0, 42}}
FeatureValues == 0..255

\* the values set_distance and set_rotation accept
DistanceValues == 0..100
RotationValues == (0 - 100)..100

\* a name of n bytes, none of them NUL
NameOfLen(n) == [i \in 1..n |-> 64 + i]
\* preset names of 1..32 bytes: the shortest, the longest, and the two around
\* the end of the first characteristic (5 + 15 = 20 bytes)
PresetNames == {NameOfLen(n) : n \in {1, 15, 16, 32}}
PresetDistances == {0, 30, 100}
PresetRotations == {0 - 100, 0 - 5, 0, 100}

\* what the mount may hold in the two characteristics of a preset slot: the
\* occupied byte, then distance, rotation and name bytes of any kind
PresetHeads == {0, 1, 2, 255}
PresetTails ==
    {Ljust(<<>>, 19),
     Ljust(<<0, 30, 255, 251, 66>>, 19),
     Ljust(<<1, 44, 128, 0, 195, 164>>, 19),
     Ljust(<<0, 30, 0, 5, 255, 66>>, 19),
     [i \in 1..19 |-> 255]}
PresetSecondHalves == {Ljust(<<>>, 17), Ljust(<<67>>, 17), Ljust(<<195>>, 17)}
\* the cached preset mapping before the read
APreset == [index |-> 1, name |-> NameA, distance |-> 10, rotation |-> 0 - 5]
PresetMaps ==
    {[i \in {} |-> NONE],
     [i \in {0, 1} |-> IF i = 1 THEN Some(APreset) ELSE NONE],
     [i \in {0, 1} |-> Some([APreset EXCEPT !.index = i])]}

\* widths of a TV; 65 is also the first byte of the name of the mount
TvWidths == {1, 65, 100, 243}

\* what the mount holds in the two characteristics of each preset slot
SlotValues ==
    {<<Ljust(<<>>, 20), Ljust(<<>>, 17)>>,
     <<Ljust(<<1, 0, 30, 255, 251, 66>>, 20), Ljust(<<67>>, 17)>>}
PresetValues == [PresetIndexes -> SlotValues]

\* the 64 combinations of the six flags, and what a mount may hold in bits 5
\* and 6 of the byte
FeatureFlags == [SettingsRequestTypes -> BOOLEAN]
UnusedBits == {0, 32, 64, 96}

\* raw automove codes the mount may hold: both tables and codes in neither
AutomoveCodes == (0..20) \cup {255, 256, 65535}

PureInputs ==
    {[kind |-> "pin", pin |-> p] : p \in PinValues}
    \cup {[kind |-> "automove", code |-> c] : c \in AutomoveCodes}
    \cup {[kind |-> "features", flags |-> f, unused |-> u] :
            f \in FeatureFlags, u \in UnusedBits}
    \cup {[kind |-> "preset_read", index |-> i, presets |-> m,
           b1 |-> <<h>> \o t, b2 |-> s] :
            i \in {0, 1}, m \in PresetMaps, h \in PresetHeads, t \in PresetTails,
            s \in PresetSecondHalves}
    \cup {[kind |-> "preset", name |-> n, distance |-> d, rotation |-> r] :
            n \in PresetNames, d \in PresetDistances, r \in PresetRotations}
    \cup {[kind |-> "distance", value |-> v] : v \in DistanceValues}
    \cup {[kind |-> "rotation", value |-> v] : v \in RotationValues}
    \cup {[kind |-> "status", payload |-> b, auth_type |-> a, cooldown |-> cd] :
            b \in StatusPayloads, a \in {"None", "Wrong", "Control", "Full"},
            cd \in {0, 20}}
    \cup {[kind |-> "gate", auth_type |-> a, value |-> v, call |-> k] :
            a \in AuthTypes, v \in FeatureValues, k \in ConnectCalls}
    \cup {[kind |-> "presets_read", values |-> v] : v \in PresetValues}
    \cup {[kind |-> "tv_width", width |-> w] : w \in TvWidths}
    \cup {[kind |-> "permissions", auth_type |-> a, value |-> v] :
            a \in AuthTypes, v \in FeatureValues}

InitPure ==
    /\ pin = NoPin
    /\ link = "none"
    /\ data = InitData
    /\ pin_type = "None"
    /\ cooldown = 0
    /\ dev = InitDev(0)
    /\ pc = "pure"
    /\ op = NoOp
    /\ io = <<>>
    /\ result = Ok
    /\ nops = 0
    /\ fin \in PureInputs
    /\ fout = NONE
    /\ net = NoLinks
    /\ cl = NoClient
    /\ tk = NoTask
    /\ sub = FALSE

Apply(out) ==
    /\ pc = "pure"
    /\ fout = NONE
    /\ fout' = Some(out)
    /\ UNCHANGED <<pin, link, data, pin_type, cooldown, dev, pc, op, io, result, nops, fin, net, cl, tk, sub>>

\* both encodings of the PIN, by API._encode_pin and by the client
EncodePin ==
    /\ fin.kind = "pin"
    /\ Apply([authorized_user |-> _encode_pin(fin.pin, "Authorized_user"),
              supervisior |-> _encode_pin(fin.pin, "Supervisior"),
              client_authorized_user |-> to_bytes_little2(fin.pin),
              client_supervisior |-> _encode_supervisior_pin(fin.pin)])

\* one status read, by API._check_authentication and by _get_auth_type
CheckStatus ==
    /\ fin.kind = "status"
    /\ Apply([api |-> _check_authentication(
                        [InitData EXCEPT !.auth_type = fin.auth_type],
                        fin.cooldown, fin.payload),
              client |-> _get_auth_type(fin.payload)])

\* the permission decision for one write, by API.has_permission on the
\* cache and by the write gate of the client on its Permissions record
CheckPermission ==
    /\ fin.kind = "gate"
    /\ Apply([api |-> has_permission(fin.auth_type, Some(MultiPinFeatures(fin.value)),
                                     fin.call.type, fin.call.srt),
              client |-> _has_write_permission(
                            fin.call.char, get_permissions(fin.auth_type, fin.value))])

\* int.to_bytes(2, byteorder="big") without signed=True: OverflowError on a
\* negative value
ToBytesOverflows(v) == v < 0 \/ v > 65535

\* the bytes set_distance / set_rotation write, and the cache field after the
\* mount hands them back to _handle_distance_change / _handle_rotation_change
\* (the notification callbacks, which _read_current_data uses for its reads
\* too); for the client, whether its encoder raises
MoveRoundTrip ==
    /\ fin.kind \in {"distance", "rotation"}
    /\ Apply(IF fin.kind = "distance"
             THEN [written |-> ToBytesBE2(fin.value),
                   decoded |-> _handle_distance_change(
                                   InitData, ToBytesBE2(fin.value)).distance,
                   client_raises |-> ToBytesOverflows(fin.value)]
             ELSE [written |-> ToBytesBE2Signed(fin.value),
                   decoded |-> _handle_rotation_change(
                                   InitData, ToBytesBE2Signed(fin.value)).rotation,
                   client_raises |-> ToBytesOverflows(fin.value)])

\* data[:20].ljust(20, b"\x00") and data[20:].ljust(17, b"\x00"): the two
\* payloads set_preset writes (api.py and client.py alike)
PresetPayloads(b) == <<Ljust(Take(b, 20), 20), Ljust(Drop(b, 20), 17)>>

\* the two payloads set_preset writes for slot 0, read back unchanged by
\* _read_preset; and the same for set_preset / read_preset of the client
PresetRoundTrip ==
    /\ fin.kind = "preset"
    /\ LET w == PresetPayloads(PresetBytes(fin.name, fin.distance, fin.rotation))
           cw == PresetPayloads(
                    client_set_preset_data(fin.name, fin.distance, fin.rotation))
       IN  Apply([written |-> w,
                  decoded |-> _read_preset(InitData, 0, w[1], w[2]).presets[0],
                  client_raises |-> ToBytesOverflows(fin.rotation),
                  client_written |->
                      IF ToBytesOverflows(fin.rotation) THEN <<>> ELSE cw,
                  client_decoded |->
                      IF ToBytesOverflows(fin.rotation) THEN NONE
                      ELSE read_preset(0, cw[1], cw[2]).data])

\* API._read_preset of slot fin.index on the cache fin.presets, and
\* read_preset of the client on the same bytes
PresetRead ==
    /\ fin.kind = "preset_read"
    /\ LET raises == _read_preset_raises(fin.b1, fin.b2)
           d == [InitData EXCEPT !.presets = fin.presets]
       IN  Apply([raises |-> raises,
                  presets |-> IF raises THEN fin.presets
                              ELSE _read_preset(d, fin.index, fin.b1, fin.b2).presets,
                  client |-> IF raises THEN NONE
                             ELSE Some(read_preset(fin.index, fin.b1, fin.b2))])

\* the byte set_multi_pin_features builds from the flags, and the flags
\* _read_multi_pin_features builds from that byte, with and without bits 5
\* and 6 set by the mount
FeaturesRoundTrip ==
    /\ fin.kind = "features"
    /\ LET value == FeaturesByte(fin.flags)
       IN  Apply([value |-> value,
                  client_value |-> client_set_multi_pin_features(fin.flags),
                  decoded |-> MultiPinFeatures(value),
                  decoded_unused |-> MultiPinFeatures(value + fin.unused)])

\* API._read_automove on the two bytes of a raw code: whether it raises (the
\* ValueError of CHAR_AUTOMOVE_OFF_OPTIONS.index) and the cache afterwards
ReadAutomove ==
    /\ fin.kind = "automove"
    /\ LET b == ToBytesBE2(fin.code)
           d == _read_automove(InitData, b)
       IN  Apply([raises |-> ~AutomoveKnown(b),
                  automove_type |-> d.automove_type,
                  automove_id |-> d.automove_id])

\* the characteristic VogelsMotionMountBluetoothClient.set_tv_width writes
\* and the one read_tv_width reads
client_set_tv_width_char == CHAR_WIDTH
client_read_tv_width_char == CHAR_NAME
\* VogelsMotionMountBluetoothClient.read_tv_width on the values v of the mount
client_read_tv_width(v) == v[client_read_tv_width_char][1]

\* VogelsMotionMountBleCoordinator.set_tv_width on a mount that stores what
\* is written: the write, the read, the comparison
SetTvWidth ==
    /\ fin.kind = "tv_width"
    /\ LET v == [InitDev(1) EXCEPT ![client_set_tv_width_char] = <<fin.width>>]
           actual == client_read_tv_width(v)
       IN  Apply([wrote |-> client_set_tv_width_char,
                  read |-> client_read_tv_width_char,
                  stored |-> v[CHAR_WIDTH][1],
                  actual |-> actual,
                  raises |-> actual # fin.width])

ReadPresets ==
    /\ fin.kind = "presets_read"
    /\ Apply(read_presets(fin.values))

\* the Permissions record get_permissions builds for a level and a bitmask
GetPermissions ==
    /\ fin.kind = "permissions"
    /\ Apply(get_permissions(fin.auth_type, fin.value))

NextPure ==
    \/ GetPermissions
    \/ ReadPresets
    \/ SetTvWidth
    \/ MoveRoundTrip
    \/ ReadAutomove
    \/ FeaturesRoundTrip
    \/ PresetRead
    \/ PresetRoundTrip
    \/ EncodePin
    \/ CheckStatus
    \/ CheckPermission

SpecPure == InitPure /\ [][NextPure]_vars

\* the engine together with the pure functions
SpecStatus == (Init \/ InitPure) /\ [][Next \/ NextPure]_vars

-----------------------------------------------------------------------------
(* Properties *)

SettingOps ==
    {"set_name", "set_preset", "set_tv_width", "set_automove", "set_freeze_preset",
     "set_multi_pin_features"}

\* an operation has ended and nothing has been called since
Done == pc = "idle" /\ op.name # "none"

\* a settings operation got past connect and authenticate to its read-back
ReachedReadback ==
    /\ Done
    /\ op.name \in SettingOps
    /\ result.exc \in {"ok", "ServiceValidationError", "APISettingsChangeNotStoredError"}
    /\ result.msg # "invalid"
    /\ result.msg # "missing"

\* the field of the cache d the operation is about
FieldOf(d) ==
    IF op.name = "set_name" THEN d.name
    ELSE IF op.name = "set_tv_width" THEN d.width
    ELSE IF op.name = "set_freeze_preset" THEN d.freeze_preset_index
    ELSE IF op.name = "set_automove" THEN <<d.automove_type, d.automove_id>>
    ELSE IF op.name = "set_multi_pin_features" THEN d.multi_pin_features
    ELSE d.presets[op.arg.index]

\* the value the mount holds for that field, decoded
DeviceField ==
    IF op.name = "set_name" THEN Some(Rstrip0(dev[CHAR_NAME]))
    ELSE IF op.name = "set_tv_width" THEN Some(dev[CHAR_WIDTH][1])
    ELSE IF op.name = "set_freeze_preset" THEN Some(dev[CHAR_FREEZE][1])
    ELSE IF op.name = "set_automove"
    THEN LET d == _read_automove(InitData, dev[CHAR_AUTOMOVE])
         IN  <<d.automove_type, d.automove_id>>
    ELSE IF op.name = "set_multi_pin_features"
    THEN Some(MultiPinFeatures(dev[CHAR_MULTI_PIN_FEATURES][1]))
    ELSE _read_preset(InitData, op.arg.index, dev[CHAR_PRESET_UUIDS(op.arg.index)],
                      dev[CHAR_PRESET_NAMES_UUIDS(op.arg.index)]).presets[op.arg.index]

\* the value the caller asked for; for automove the state that the code
\* written to the mount stands for
IntendedField ==
    IF op.name \in {"set_name", "set_tv_width", "set_freeze_preset"} THEN Some(op.arg)
    ELSE IF op.name = "set_automove"
    THEN LET d == _read_automove(InitData, ToBytesBE2(op.expect.id))
         IN  <<d.automove_type, d.automove_id>>
    ELSE Some(op.expect)

NotSaved == result.msg = "not_saved"

C2_MatchReturnsAndCaches ==
    (ReachedReadback /\ DeviceField = IntendedField)
        => (result = Ok /\ FieldOf(data) = IntendedField)

\* C2 witness: set_automove to HDMI 2 ended with the not-saved error although
\* the mount holds the code written
C2_Witness ==
    /\ Done
    /\ op.name = "set_automove"
    /\ op.arg = "hdmi_2"
    /\ FromBytesBE(dev[CHAR_AUTOMOVE]) = CHAR_AUTOMOVE_ON_OPTIONS[2]
    /\ NotSaved

\* C3: set_distance outside 0..100 and set_rotation outside -100..100 raise
\* the validation error before any I/O: the call ends at once with no
\* request on the link, the link as it was and the cache unchanged.
C3_ValidationBeforeIO ==
    (\/ (op.name = "set_distance" /\ op.arg \notin 0..100)
     \/ (op.name = "set_rotation" /\ op.arg \notin (0 - 100)..100))
        => /\ pc = "idle"
           /\ result = ServiceValidationError("invalid")
           /\ io = <<>>
           /\ link = op.pre_link
           /\ data = op.pre

\* C3 witness: set_rotation(101) was rejected while the link was up
C3_Witness ==
    /\ Done
    /\ op.name = "set_rotation"
    /\ op.arg = 101
    /\ link = "up"
    /\ result = ServiceValidationError("invalid")

-----------------------------------------------------------------------------
(* Properties of authentication *)

\* what a status payload reports, read off its leading bytes
ReportsFull(b) == Len(b) >= 2 /\ b[1] = 128 /\ b[2] = 128
ReportsControl(b) == Len(b) >= 1 /\ b[1] = 128 /\ ~ReportsFull(b)
ReportsNone(b) == Len(b) >= 1 /\ b[1] # 128
\* the numeric value of a 4-byte payload and the cooldown it stands for
CodeOf(b) == b[1] + 256 * b[2] + 65536 * b[3] + 16777216 * b[4]
CooldownOf(b) == IF 3 * CodeOf(b) - 10 > 0 THEN 3 * CodeOf(b) - 10 ELSE 0

\* the bit of each feature in the bitmask
FeatureBit(f) ==
    IF f = "change_presets" THEN 0
    ELSE IF f = "change_name" THEN 1
    ELSE IF f = "disable_channel" THEN 2
    ELSE IF f = "change_tv_on_off_detection" THEN 3
    ELSE IF f = "change_default_position" THEN 4
    ELSE 7
FeatureSet(value, f) == (value \div (2 ^ FeatureBit(f))) % 2 = 1

IsAuthWrite(e) == e[1] = "write" /\ e[2] = CHAR_AUTHENTICATE
IsStatusRead(e) == e = <<"read", CHAR_PIN_CHECK>>
AuthWrites(log) == {i \in 1..Len(log) : IsAuthWrite(log[i])}
\* the status reads made since the last write of the PIN
ReadsSinceAuthWrite(log) ==
    LET last == CHOOSE i \in AuthWrites(log) : \A j \in AuthWrites(log) : j <= i
    IN  Cardinality({i \in (last + 1)..Len(log) : IsStatusRead(log[i])})
\* the two bytes of a PIN for a pin type
EncodedPin(p, tier) ==
    <<p % 256, ((p \div 256) + (IF tier = "Supervisior" THEN 64 ELSE 0)) % 256>>

\* C4 (as stated): when the mount reports Control and the feature bit of a
\* settings action is clear, has_permission is false for it and the action
\* fails with the permission error without any write to a setting.
C4_ControlWithoutBitNeverWrites ==
    (/\ op.name \in SettingOps
     /\ op.srt \in SettingsRequestTypes
     /\ ReportsControl(op.auth_info)
     /\ ~FeatureSet(dev[CHAR_MULTI_PIN_FEATURES][1], op.srt)
     /\ pc # "auth_features")
        => /\ ~has_permission(data.auth_type, data.multi_pin_features, op.type, op.srt)
           /\ \A i \in 1..Len(io) : io[i][1] = "write" => IsAuthWrite(io[i])
           /\ pc = "idle"
           /\ result = APIAuthenticationError("permission", cooldown)

\* C4 witness: set_name ended without error under Control with the
\* change_name bit clear, the name written
C4_Witness ==
    /\ Done
    /\ op.name = "set_name"
    /\ result = Ok
    /\ data.auth_type = "Control"
    /\ ~FeatureSet(dev[CHAR_MULTI_PIN_FEATURES][1], "change_name")
    /\ \E i \in 1..Len(io) : io[i][1] = "write" /\ io[i][2] = CHAR_NAME

\* C6: authenticate_as writes the encoded PIN of its pin type once, then
\* reads the status 1 to 4 times; a read that reports Control or Full ends
\* it with success and makes the pin type the remembered one; it ends with
\* failure only on the 4th read in a row that reports no authentication;
\* and the remembered pin type changes in no other step.
C6_Step ==
    /\ pc = "auth_write" =>
        /\ io' = Append(io, <<"write", CHAR_AUTHENTICATE, EncodedPin(pin, Head(op.tiers))>>)
        /\ pc' = "auth_poll"
        /\ op'.tiers = op.tiers
    /\ pc = "auth_poll" =>
        /\ io' = Append(io, <<"read", CHAR_PIN_CHECK>>)
        /\ ReadsSinceAuthWrite(io') \in 1..4
        /\ IF ~ReportsNone(op'.auth_info)
           THEN /\ pc' \notin {"auth_poll", "auth_write", "auth_wrong"}
                /\ pin_type' = Head(op.tiers)
           ELSE /\ pin_type' = pin_type
                /\ IF ReadsSinceAuthWrite(io') < 4
                   THEN pc' = "auth_poll" /\ op'.tiers = op.tiers
                   ELSE pc' \in {"auth_write", "auth_wrong"} /\ op'.tiers = Tail(op.tiers)
    /\ pin_type' # pin_type => pc = "auth_poll"
C6_AuthenticateAs == [][C6_Step]_vars

\* C6 witness: the first pin type failed after 4 reads and the second one
\* succeeded on its 2nd read
C6_Witness ==
    /\ pc \in {"write", "auth_features", "read_all"}
    /\ Cardinality(AuthWrites(io)) = 2
    /\ ReadsSinceAuthWrite(io) = 2
    /\ pin_type = "Authorized_user"
    /\ Len(op.tiers) = 1

\* C7: when the first status read of authenticate reports no authentication
\* and a PIN is configured, the remembered pin type is tried first and the
\* other one second (Supervisior first when none is remembered); a pin type
\* that succeeds ends it, and when the second fails too auth_type becomes
\* Wrong and the authentication error raised carries the cooldown of the
\* last status read.
C7_Step ==
    /\ (pc = "auth_check" /\ ReportsNone(op'.auth_info) /\ pin # NoPin) =>
        /\ pc' = "auth_write"
        /\ op'.tiers = IF pin_type = "Authorized_user"
                       THEN <<"Authorized_user", "Supervisior">>
                       ELSE <<"Supervisior", "Authorized_user">>
    /\ pc = "auth_write" =>
        io' = Append(io, <<"write", CHAR_AUTHENTICATE, EncodedPin(pin, Head(op.tiers))>>)
    /\ (pc = "auth_poll" /\ ~ReportsNone(op'.auth_info)) =>
        pc' \notin {"auth_poll", "auth_write", "auth_wrong"}
    /\ (pc = "auth_poll" /\ pc' = "auth_write") =>
        (Len(op.tiers) = 2 /\ op'.tiers = Tail(op.tiers) /\ ReportsNone(op'.auth_info))
    /\ (pc = "auth_poll" /\ pc' = "auth_wrong") =>
        (Len(op.tiers) = 1 /\ ReportsNone(op'.auth_info) /\ data'.auth_type = "Wrong")
    /\ pc = "auth_wrong" =>
        /\ pc' = "idle"
        /\ data'.auth_type = "Wrong"
        /\ result' = APIAuthenticationError("invalid", CooldownOf(op.auth_info))
-----------------------------------------------------------------------------
(* Properties of the pure functions *)

\* the permission table: Full permits everything; Control permits the
\* control actions and a settings action whose feature bit is set; every
\* other auth_type permits nothing
PermissionTable(auth_type, value, call) ==
    IF auth_type = "Full" THEN TRUE
    ELSE IF auth_type = "Control"
    THEN \/ call.type = "Control"
         \/ (call.srt \in SettingsRequestTypes /\ FeatureSet(value, call.srt))
    ELSE FALSE

\* C5 (as stated): for every auth_type, bitmask and write of the engine, the
\* decision of has_permission is the one of the table, and so is the decision
\* of the gate applied to the write of the characteristic.
C5_PermissionTable ==
    (fin.kind = "gate" /\ fout # NONE) =>
        /\ fout[1].api = PermissionTable(fin.auth_type, fin.value, fin.call)
        /\ fout[1].client = PermissionTable(fin.auth_type, fin.value, fin.call)

\* C5 witness: under Control the gate refuses the write of a distance, which
\* has_permission and the table permit
C5_Witness ==
    /\ fin.kind = "gate"
    /\ fout # NONE
    /\ fin.auth_type = "Control"
    /\ fin.value = 0
    /\ fin.call.char = CHAR_DISTANCE
    /\ fout[1].api
    /\ ~fout[1].client

\* C9: a status payload with two leading 0x80 bytes gives Full, one with
\* exactly one leading 0x80 gives Control, and any other gives "not
\* authenticated" with cooldown max(0, 3 * code - 10), leaving auth_type as
\* it was; the cooldown is never negative.
C9_Classified ==
    /\ cooldown >= 0
    /\ (fin.kind = "status" /\ fout # NONE) =>
        LET b == fin.payload
            r == fout[1].api
        IN  IF ReportsFull(b)
            THEN /\ r.ok
                 /\ r.data.auth_type = "Full"
                 /\ r.cooldown = fin.cooldown
                 /\ fout[1].client = "Full"
            ELSE IF ReportsControl(b)
            THEN /\ r.ok
                 /\ r.data.auth_type = "Control"
                 /\ r.cooldown = fin.cooldown
                 /\ fout[1].client = "Control"
            ELSE /\ ~r.ok
                 /\ r.data.auth_type = fin.auth_type
                 /\ r.cooldown = CooldownOf(b)
                 /\ r.cooldown >= 0
                 /\ fout[1].client = "Wrong"
\* C9, second part: in the engine auth_type becomes Full or Control only in
\* a step that reads the status and gets a payload reporting that level; a
\* status read that reports no authentication sets the cooldown of its code.
C9_Step ==
    /\ (data'.auth_type # data.auth_type /\ data'.auth_type \in {"Full", "Control"}) =>
        /\ io' = Append(io, <<"read", CHAR_PIN_CHECK>>)
        /\ IF data'.auth_type = "Full" THEN ReportsFull(op'.auth_info)
           ELSE ReportsControl(op'.auth_info)
    /\ (pc \in {"auth_check", "auth_poll"}) =>
        /\ io' = Append(io, <<"read", CHAR_PIN_CHECK>>)
        /\ ReportsFull(op'.auth_info) => data'.auth_type = "Full"
        /\ ReportsControl(op'.auth_info) => data'.auth_type = "Control"
        /\ ReportsNone(op'.auth_info) =>
            /\ cooldown' = CooldownOf(op'.auth_info)
            /\ data'.auth_type \notin {"Full", "Control"} \/ data'.auth_type = data.auth_type
C10_PinEncoding ==
    (fin.kind = "pin" /\ fout # NONE) =>
        LET p == fin.pin
            o == fout[1]
        IN  /\ o.authorized_user = <<p % 256, p \div 256>>
            /\ o.supervisior = <<p % 256, ((p \div 256) + 64) % 256>>
            /\ o.supervisior # o.authorized_user
            /\ o.client_authorized_user = <<p % 256, p \div 256>>
            /\ o.client_supervisior = <<p % 256, ((p \div 256) + 64) % 256>>
            /\ o.client_supervisior # o.client_authorized_user

\* C10 witness: the client encodes the Supervisior PIN 1234 as D2 04, the
\* bytes of the Authorized_user PIN, where the engine gives D2 44
C10_Witness ==
    /\ fin.kind = "pin"
    /\ fin.pin = 1234
    /\ fout # NONE
    /\ fout[1].supervisior = <<210, 68>>
    /\ fout[1].client_supervisior = <<210, 4>>
    /\ fout[1].client_authorized_user = <<210, 4>>

-----------------------------------------------------------------------------
\* C11 (as stated): for every distance in 0..100 and every rotation in
\* -100..100, the bytes set_distance / set_rotation write decode, when the
\* mount hands them back as a read result or a notification, to the same
\* distance / rotation in the cache.
C11_MoveRoundTrip ==
    (fin.kind \in {"distance", "rotation"} /\ fout # NONE)
        => fout[1].decoded = Some(fin.value)

\* C11 witness: set_rotation(-5) writes FF FB, which the rotation callback
\* decodes to 65531
C11_Witness ==
    /\ fin.kind = "rotation"
    /\ fin.value = 0 - 5
    /\ fout # NONE
    /\ fout[1].written = <<255, 251>>
    /\ fout[1].decoded = Some(65531)

\* C12 (as stated): for every preset (distance 0..100, rotation -100..100,
\* name of 1..32 bytes) the two payloads set_preset writes, read back
\* unchanged, decode to an occupied slot with the same name, distance and
\* rotation; the name is split between the two characteristics at the same
\* offset on write and on read.  For set_preset of the engine and for the
\* one of the client.
C12_PresetRoundTrip ==
    (fin.kind = "preset" /\ fout # NONE) =>
        /\ fout[1].decoded = Some([index |-> 0, name |-> fin.name,
                                   distance |-> fin.distance,
                                   rotation |-> fin.rotation])
        /\ Len(fout[1].written[1]) = 20
        /\ Take(fin.name, 15) = SubSeq(fout[1].written[1], 6, 5 + Min(15, Len(fin.name)))
        /\ ~fout[1].client_raises
        /\ fout[1].client_decoded = Some([distance |-> fin.distance,
                                          name |-> fin.name,
                                          rotation |-> fin.rotation])

\* C12 witness: a preset with a 32-byte name and rotation 0 comes back from
\* the engine's payloads as written, while the client's payloads start with
\* a zero byte and decode to an unoccupied slot
C12_Witness ==
    /\ fin.kind = "preset"
    /\ Len(fin.name) = 32
    /\ fin.rotation = 0
    /\ fout # NONE
    /\ fout[1].decoded = Some([index |-> 0, name |-> fin.name,
                               distance |-> fin.distance, rotation |-> fin.rotation])
    /\ fout[1].client_written[1][1] = 0
    /\ fout[1].client_decoded = NONE

\* C13 (as stated): a preset read whose first byte is 0 yields an unoccupied
\* slot whatever the remaining bytes are, a preset read whose first byte is
\* not 0 yields an occupied slot, and reading slot i changes only slot i of
\* the cached preset mapping.
C13_PresetOccupiedByte ==
    (fin.kind = "preset_read" /\ fout # NONE) =>
        /\ ~fout[1].raises
        /\ DOMAIN fout[1].presets = (DOMAIN fin.presets) \cup {fin.index}
        /\ (fin.b1[1] = 0 <=> fout[1].presets[fin.index] = NONE)
        /\ \A j \in (DOMAIN fin.presets) \ {fin.index} :
                fout[1].presets[j] = fin.presets[j]
        /\ fout[1].client # NONE
        /\ (fin.b1[1] = 0 <=> fout[1].client[1].data = NONE)

\* C13 witness: the slot bytes 01 00 1E 00 05 FF 42 ..., whose first byte is
\* not 0, make the read raise at the decoding of the name; the slot is not
\* stored
C13_Witness ==
    /\ fin.kind = "preset_read"
    /\ fin.b1 = <<1>> \o Ljust(<<0, 30, 0, 5, 255, 66>>, 19)
    /\ fin.presets = [i \in {} |-> NONE]
    /\ fout # NONE
    /\ fout[1].raises
    /\ fin.index \notin DOMAIN fout[1].presets

\* C14: for all 64 combinations of the six multi-pin feature flags, encoding
\* to the byte and decoding it gives the same flags; the byte has bit 0, 1,
\* 2, 3, 4 and 7 for change_presets, change_name, disable_channel,
\* change_tv_on_off_detection, change_default_position and
\* start_calibration, never bit 5 or 6; decoding ignores bits 5 and 6.
C14_FeaturesRoundTrip ==
    (fin.kind = "features" /\ fout # NONE) =>
        LET v == fout[1].value
            f == fin.flags
        IN  /\ v \in 0..255
            /\ fout[1].client_value = v
            /\ Bit(v, 0) = f.change_presets
            /\ Bit(v, 1) = f.change_name
            /\ Bit(v, 2) = f.disable_channel
            /\ Bit(v, 3) = f.change_tv_on_off_detection
            /\ Bit(v, 4) = f.change_default_position
            /\ Bit(v, 7) = f.start_calibration
            /\ ~Bit(v, 5)
            /\ ~Bit(v, 6)
            /\ fout[1].decoded = f
            /\ fout[1].decoded_unused = f

\* C14 witness: start_calibration and change_name alone encode to 0x82, and
\* 0xE2, the same with bits 5 and 6 set, decodes to the same flags
C14_Witness ==
    /\ fin.kind = "features"
    /\ fin.unused = 96
    /\ fout # NONE
    /\ fout[1].value = 130
    /\ fout[1].decoded_unused = fin.flags
    /\ fin.flags.start_calibration
    /\ fin.flags.change_name

-----------------------------------------------------------------------------
\* the operation in flight wrote the bytes b to the characteristic c
Wrote(c, b) == \E i \in 1..Len(io) : io[i] = <<"write", c, b>>

\* C15 (as stated): set_automove(HDMI-k) writes the on-table code at index
\* k-1, and when the mount returns that code on the read-back the operation
\* ends without the not-saved error and the cached automove state is the
\* HDMI-k on-state.
C15_AutomoveOn ==
    (ReachedReadback /\ op.name = "set_automove" /\ op.arg # "off") =>
        LET code == CHAR_AUTOMOVE_ON_OPTIONS[IndexOf(automove_types, op.arg) + 1]
        IN  /\ Wrote(CHAR_AUTOMOVE, ToBytesBE2(code))
            /\ (FromBytesBE(dev[CHAR_AUTOMOVE]) = code
                    => (result = Ok /\ data.automove_type = op.arg))

\* C15 witness: set_automove(HDMI-2) wrote the code at index 1, the mount
\* holds it and the read-back decoded it to the HDMI-2 on-state, yet the
\* operation raised the not-saved error
C15_Witness ==
    /\ Done
    /\ op.name = "set_automove"
    /\ op.arg = "hdmi_2"
    /\ Wrote(CHAR_AUTOMOVE, ToBytesBE2(CHAR_AUTOMOVE_ON_OPTIONS[2]))
    /\ dev[CHAR_AUTOMOVE] = ToBytesBE2(CHAR_AUTOMOVE_ON_OPTIONS[2])
    /\ data.automove_type = "hdmi_2"
    /\ data.automove_id = Some(1)
    /\ result = APISettingsChangeNotStoredError

\* C16 (as stated): decoding a raw automove code is total: the code is an
\* on-state (HDMI channel index + 1) if and only if it is in the on-table,
\* an off-state if it is in the off-table, and an explicit unknown value if
\* it is in neither; a code in neither table is never classified as off or
\* on and never makes the read fail.
C16_AutomoveTotal ==
    (fin.kind = "automove" /\ fout # NONE) =>
        LET on == InList(CHAR_AUTOMOVE_ON_OPTIONS, fin.code)
            off == InList(CHAR_AUTOMOVE_OFF_OPTIONS, fin.code)
            t == fout[1].automove_type
        IN  /\ ~fout[1].raises
            /\ (on <=> InList(automove_types, t))
            /\ (on => t = automove_types[IndexOf(CHAR_AUTOMOVE_ON_OPTIONS, fin.code) + 1])
            /\ (off => t = "off")
            /\ ((~on /\ ~off) => t = "unknown")

\* C16 witness: the code 2, in neither table, makes _read_automove raise and
\* leaves the cache without an automove state
C16_Witness ==
    /\ fin.kind = "automove"
    /\ fin.code = 2
    /\ fout # NONE
    /\ fout[1].raises
    /\ fout[1].automove_type = "None"
    /\ fout[1].automove_id = NONE

-----------------------------------------------------------------------------
(* Properties of the life of the link *)

\* the operation of the API called establish_connection
EstablishCalled == \E i \in 1..Len(io) : io[i] = <<"connect">>

\* the method of the session client called establish_connection
ClientEstablishCalled ==
    cl.pc # "off" /\ \E i \in 1..Len(cl.log) : cl.log[i][1] = "connect"

\* this step calls establish_connection
EstablishStep ==
    \/ Len(io') = Len(io) + 1 /\ io'[Len(io')] = <<"connect">>
    \/ cl.pc # "off" /\ Len(cl'.log) = Len(cl.log) + 1
                     /\ cl'.log[Len(cl'.log)][1] = "connect"

\* the counts of links: at most one link more than disconnects delivered,
\* and exactly one more while a link is up
LinkCounts ==
    /\ net.established <= net.delivered + 1
    /\ link = "up" => net.established = net.delivered + 1
    /\ cl.pc # "off" => /\ cl.links <= cl.lost + 1
                        /\ Cardinality(cl.up) <= 1
                        /\ cl.up # {} => cl.links = cl.lost + 1

CallbackStep == net'.lost = net.lost + 1

\* this step is the disconnected callback of the session client
ClientCallbackStep == cl.pc # "off" /\ cl'.lost = cl.lost + 1

IsRequest(e) == e[1] \in {"read", "write", "start_notify"}

\* an operation of the API that starts on a link that is not connected
\* establishes a link and reads the authentication status on it before any
\* other request
NextOperationReconnects ==
    op.pre_link # "up" =>
        \A i \in 1..Len(io) :
            IsRequest(io[i]) =>
                /\ i >= 2
                /\ io[1] = <<"connect">>
                /\ io[2] = <<"read", CHAR_PIN_CHECK>>

\* no operation of the API makes a request on a client whose disconnect is
\* delivered
NoRequestOnDeadLink == \A i \in 1..Len(io) : io[i][1] # "not_connected"

\* a method of the session client that starts with no link connected
\* establishes a link before any request
ClientNextOperationReconnects ==
    (cl.pc # "off" /\ cl.pre_up = {}) =>
        \A i \in 1..Len(cl.log) :
            (IsRequest(cl.log[i]) \/ cl.log[i][1] = "not_connected") =>
                cl.log[1][1] = "connect"

\* a request the session client makes in this step is on a connected link
ClientRequestsOnLiveLink ==
    (cl.pc # "off" /\ Len(cl'.log) > Len(cl.log)) =>
        \A i \in (Len(cl.log) + 1)..Len(cl'.log) :
            (IsRequest(cl'.log[i]) \/ cl'.log[i][1] = "not_connected") =>
                cl'.log[i][3] \in cl.up

\* C19 (as stated): after a disconnect has been delivered, at any point, the
\* next operation establishes a new link and authenticates on it before it
\* makes any read or write, and no operation ever makes a request on a link
\* whose disconnect has been delivered.
C19_ReconnectsAfterDisconnect ==
    /\ [](NextOperationReconnects /\ NoRequestOnDeadLink
          /\ ClientNextOperationReconnects)
    /\ [][ClientRequestsOnLiveLink]_vars

\* C19 witness: the callback ran while _connect of the session client was
\* suspended in get_permissions; _connect then stored the session of the
\* lost link, and the next method read on it without connecting
C19_Witness ==
    /\ cl.pc = "idle"
    /\ cl.nops = 2
    /\ cl.lost = 1
    /\ cl.links = 1
    /\ cl.up = {}
    /\ cl.session # NONE
    /\ cl.pre_up = {}
    /\ cl.log = << <<"read", CHAR_DISTANCE, 1>> >>
    /\ cl.result = "BleakError"

\* API.disconnect on a link that was up called the disconnect of its client
\* and the link is down; in every case it returned without error
APIDisconnectTearsDown ==
    op.name = "disconnect" =>
        /\ pc = "idle"
        /\ result = Ok
        /\ op.pre_link = "up" => (io = << <<"disconnect">> >> /\ link = "down")

\* the same of the disconnect of the session client
ClientDisconnectTearsDown ==
    (cl.pc # "off" /\ cl.name = "disconnect") =>
        /\ cl.pc = "idle"
        /\ cl.result = "ok"
        /\ \A c \in cl.pre_up :
                /\ c \notin cl.up
                /\ \E i \in 1..Len(cl.log) : cl.log[i] = <<"disconnect", NoChar, c>>

\* C20 (as stated): disconnect() called while a link is up calls the
\* disconnect of the transport on that link, so that the link is down
\* afterwards; called when no link was established or when it is already
\* down, it completes without error.
C20_DisconnectTearsDown == APIDisconnectTearsDown /\ ClientDisconnectTearsDown

\* C20 witness: the session client read on a link it established, and its
\* disconnect() returned with that link still connected and its session
\* still stored
C20_Witness ==
    /\ cl.pc = "idle"
    /\ cl.name = "disconnect"
    /\ cl.result = "ok"
    /\ cl.pre_up = {1}
    /\ cl.up = {1}
    /\ cl.log = <<>>
    /\ cl.session # NONE
    /\ cl.connected = Some(TRUE)

-----------------------------------------------------------------------------
(* Properties of concurrent operations *)

\* C21 (as stated): operations on one device are serialized: while one
\* operation is in flight, a second one that is invoked does not start its
\* connect, authenticate, write or read-back steps, so that at no moment two
\* operations have a request outstanding or pending on the same link.
C21_Serialized ==
    /\ (pc # "idle" /\ tk.pc # "idle") => (pc = "connect" /\ io = <<>>)
    /\ ~(link = "up" /\ pc \in RequestPositions /\ tk.pc \in RequestPositions)

\* C21 witness: set_name is suspended before its read-back, after its
\* write, and set_distance, invoked meanwhile, has authenticated on the same
\* link and is about to write
C21_Witness ==
    /\ link = "up"
    /\ tk.op.name = "set_name"
    /\ tk.pc = "readback"
    /\ op.name = "set_distance"
    /\ pc = "write"
    /\ \E i \in 1..Len(tk.io) : tk.io[i][1] = "write"
    /\ \E i \in 1..Len(io) : io[i] = <<"read", CHAR_PIN_CHECK>>

-----------------------------------------------------------------------------
(* Properties of the movement commands and of the notifications *)

\* a movement command has ended
MoveDone == Done /\ op.name \in {"set_distance", "set_rotation"}

\* the requested field of the command and the other one
RequestedOf(d) ==
    IF op.name = "set_distance" THEN d.requested_distance ELSE d.requested_rotation
RequestedOther(d) ==
    IF op.name = "set_distance" THEN d.requested_rotation ELSE d.requested_distance

\* the last request of the operation is its write
EndsWithWrite ==
    io # <<>> /\ io[Len(io)] = <<"write", Head(op.writes)[1], Head(op.writes)[2]>>

DistanceNotified == dev'[CHAR_DISTANCE] # dev[CHAR_DISTANCE]
RotationNotified == dev'[CHAR_ROTATION] # dev[CHAR_ROTATION]

\* a notification makes no request, leaves the operation in flight where
\* it is, and changes no field of the cache but its own
NotificationFrame ==
    /\ DistanceNotified =>
            /\ data' = [data EXCEPT !.distance = data'.distance]
            /\ UNCHANGED <<pin, link, pin_type, cooldown, pc, op, io, result, nops>>
    /\ RotationNotified =>
            /\ data' = [data EXCEPT !.rotation = data'.rotation]
            /\ UNCHANGED <<pin, link, pin_type, cooldown, pc, op, io, result, nops>>

\* the cached field is the position the mount notified
NotificationValue ==
    /\ DistanceNotified => data'.distance = Some(FromBytesBE(dev'[CHAR_DISTANCE]))
    /\ RotationNotified => data'.rotation = Some(FromBytesBE2Signed(dev'[CHAR_ROTATION]))

\* C23 (as stated): a distance (rotation) notification sets the cached
\* distance (rotation) to the decoded payload at once, with no read, write or
\* verification, and changes no other field of the device state, also when
\* it is delivered between two steps of an operation in flight.
C23_NotificationSetsField == [][NotificationFrame /\ NotificationValue]_vars

\* C23 witness: while set_name was between its write and its read-back the
\* mount notified rotation -5 (FF FB), and the cache holds 65531
C23_Witness ==
    /\ op.name = "set_name"
    /\ pc = "readback"
    /\ dev[CHAR_ROTATION] = <<255, 251>>
    /\ data.rotation = Some(65531)
    /\ dev[CHAR_DISTANCE] = ToBytesBE2(55)
    /\ data.distance = Some(55)

-----------------------------------------------------------------------------
(* The refresh of the whole state *)

IsRead(e) == e[1] = "read"
ReadsOf(s) == SelectSeq(s, IsRead)

\* the order the refresh is to read in
RefreshOrder ==
    << <<"read", CHAR_NAME>>, <<"read", CHAR_DISTANCE>>, <<"read", CHAR_ROTATION>> >>
    \o PresetReads(0)
    \o << <<"read", CHAR_WIDTH>>, <<"read", CHAR_FREEZE>>, <<"read", CHAR_AUTOMOVE>>,
          <<"read", CHAR_PIN_SETTINGS>>, <<"read", CHAR_MULTI_PIN_FEATURES>>,
          <<"read", CHAR_VERSIONS_CEB>>, <<"read", CHAR_VERSIONS_MCP>> >>

RefreshDone == Done /\ op.name = "refresh_data"
RefreshRead == RefreshDone /\ \E i \in 1..Len(io) : io[i] = <<"read", CHAR_NAME>>

\* the reads of a refresh of the API that returned: the status read of
\* _authenticate first, the reads of the state last, each once and in order
APIRefreshOrder ==
    (RefreshDone /\ result = Ok) =>
        LET r == ReadsOf(io)
            n == Len(r) - Len(RefreshOrder)
        IN  /\ n >= 1
            /\ r[1] = <<"read", CHAR_PIN_CHECK>>
            /\ SubSeq(r, n + 1, Len(r)) = RefreshOrder
            /\ \A i \in 1..n :
                    r[i] \in {<<"read", CHAR_PIN_CHECK>>, <<"read", CHAR_MULTI_PIN_FEATURES>>}

Populated(d) ==
    /\ d.name # NONE /\ d.distance # NONE /\ d.rotation # NONE
    /\ DOMAIN d.presets = PresetIndexes
    /\ d.width # NONE /\ d.freeze_preset_index # NONE
    /\ d.automove_type # "None" /\ d.pin_setting # "None"
    /\ d.multi_pin_features # NONE
    /\ d.ceb_bl_version # NONE /\ d.mcp_hw_version # NONE
    /\ d.mcp_bl_version # NONE /\ d.mcp_fw_version # NONE

\* a refresh of the API whose reads were answered returns with every field
APIRefreshCompletes == RefreshRead => (result = Ok /\ Populated(data))

\* read_presets of the client, every read answered, returns every slot
ClientRefreshCompletes ==
    (fin.kind = "presets_read" /\ fout # NONE) =>
        (~fout[1].raises /\ Len(fout[1].presets) = NumPresets)

\* C24: a refresh authenticates first and then reads every characteristic
\* once, in the order name, distance, rotation, the presets, width, freeze
\* index, automove, PIN settings, feature bitmask, versions; when every read
\* is answered it returns without error with every field populated.
C24_RefreshReadsAll ==
    /\ APIRefreshOrder
    /\ APIRefreshCompletes
    /\ ClientRefreshCompletes

\* read_presets of the client raised on a mount whose slots all decode
C24_Witness ==
    /\ fin.kind = "presets_read"
    /\ fout # NONE
    /\ fout[1].raises
    /\ fout[1].presets = <<>>
    /\ fin.values[0][1][1] = 1

\* a refresh of the API on a link that was up returned with every field
C24_APIWitness ==
    /\ RefreshDone /\ result = Ok /\ op.pre_link = "up"
    /\ Populated(data)
    /\ ReadsOf(io)[1] = <<"read", CHAR_PIN_CHECK>>

-----------------------------------------------------------------------------
(* Properties of test_connection *)

TestReturned == Done /\ op.name = "test_connection"
LastIO == io[Len(io)]

\* the device was not found: by _initialize_device, or by the backend when
\* establish_connection looked for it
DeviceUnresolved ==
    io = <<>> \/ LastIO = <<"connect_failed", "BleakDeviceNotFoundError">>
\* _authenticate gave up: no PIN, or a PIN the mount refused
AuthenticationFailed ==
    /\ Len(io) > 1
    /\ LastIO = <<"disconnect">>
    /\ data.auth_type \in {"Missing", "Wrong"}
\* the error _authenticate raised
AuthenticationRaised ==
    APIAuthenticationError(IF data.auth_type = "Missing" THEN "missing" ELSE "invalid",
                           cooldown)
HasConnect(s) == \E i \in 1..Len(s) : s[i] = <<"connect">>

\* C25: test_connection raises the device-not-found error when the device
\* cannot be resolved, re-raises the authentication error unchanged when
\* authentication fails, raises the connection error on every other
\* failure, and when it returns normally the link it opened is
\* disconnected again.
C25_TestConnectionOutcomes ==
    TestReturned =>
        /\ DeviceUnresolved => result = APIConnectionDeviceNotFoundError
        /\ (~DeviceUnresolved /\ AuthenticationFailed) => result = AuthenticationRaised
        /\ (~DeviceUnresolved /\ ~AuthenticationFailed /\ result # Ok)
              => result = APIConnectionError
        /\ result = Ok =>
              /\ HasConnect(io)
              /\ LastIO = <<"disconnect">>
              /\ link = "down"
              /\ data.auth_type \in {"Control", "Full"}

\* a test of the connection that found the link up, closed it, opened its
\* own, authenticated and closed that one
C25_Witness ==
    /\ TestReturned
    /\ result = Ok
    /\ op.pre_link = "up"
    /\ HasConnect(io)
    /\ link = "down"

\* the three failures of a test of the connection
C25_WitnessAuth ==
    TestReturned /\ AuthenticationFailed /\ result.exc = "APIAuthenticationError"
C25_WitnessOther ==
    TestReturned /\ ~DeviceUnresolved /\ result = APIConnectionError
C25_WitnessNotFound ==
    TestReturned /\ io = <<>> /\ result = APIConnectionDeviceNotFoundError

-----------------------------------------------------------------------------
(* Properties of the changes of one setting *)

\* the operation in flight wrote to the characteristic c, and what
WroteTo(c) == \E i \in 1..Len(io) : io[i][1] = "write" /\ io[i][2] = c
WrittenTo(c) == io[CHOOSE i \in 1..Len(io) : io[i][1] = "write" /\ io[i][2] = c][3]

\* the flags the cache held when the operation was called
CachedFeatures ==
    IF op.pre.multi_pin_features # NONE THEN op.pre.multi_pin_features[1] ELSE NoFeatures
\* the flags asked for: the argument where one was given, the cache elsewhere
RequestedFeatures ==
    [f \in SettingsRequestTypes |->
        IF op.arg[f] # NONE THEN op.arg[f][1] ELSE CachedFeatures[f]]

\* C26: changing one multi-pin feature writes a bitmask in which that
\* feature has the requested value, on or off, and the other five keep
\* their cached values.
C26_FeatureWriteMerges ==
    (op.name = "set_multi_pin_features" /\ WroteTo(CHAR_MULTI_PIN_FEATURES)) =>
        WrittenTo(CHAR_MULTI_PIN_FEATURES) = <<FeaturesByte(RequestedFeatures)>>

\* change_name was on in the cache, the caller turned it off, and the byte
\* written still has bit 1 set
C26_Witness ==
    /\ op.name = "set_multi_pin_features"
    /\ op.arg["change_name"] = Some(FALSE)
    /\ CachedFeatures["change_name"]
    /\ Wrote(CHAR_MULTI_PIN_FEATURES, <<2>>)

\* turning a feature on writes its bit
C26_TurnsOn ==
    (op.name = "set_multi_pin_features" /\ WroteTo(CHAR_MULTI_PIN_FEATURES)
     /\ op.arg["change_name"] = Some(TRUE)) =>
        WrittenTo(CHAR_MULTI_PIN_FEATURES) = <<FeaturesByte(RequestedFeatures)>>

\* the caller changes the name of a slot the cache knows, and nothing else
NameOnly ==
    /\ op.name = "set_preset"
    /\ op.arg.name # NONE /\ op.arg.distance = NONE /\ op.arg.rotation = NONE
    /\ HasKey(op.pre.presets, op.arg.index)
\* the 37 bytes of the slot the change of the name alone is to write
NameOnlyBytes ==
    LET preset == op.pre.presets[op.arg.index]
    IN  PresetBytes(op.arg.name[1],
                    IF preset # NONE THEN preset[1].distance ELSE 0,
                    IF preset # NONE THEN preset[1].rotation ELSE 0)

\* C27: changing only the name of a preset slot writes the new name with
\* the slot's current distance and rotation when the slot is occupied and
\* with distance 0 and rotation 0 when it is not; the arguments left out
\* cause no validation error.
C27_NameOnlyKeepsPosition ==
    NameOnly =>
        /\ ~(Done /\ io = <<>> /\ result.exc = "ServiceValidationError")
        /\ WroteTo(CHAR_PRESET_UUIDS(op.arg.index)) =>
              WrittenTo(CHAR_PRESET_UUIDS(op.arg.index)) = Ljust(Take(NameOnlyBytes, 20), 20)

\* the name of an occupied slot was to be changed and the call was refused
\* before any request
C27_Witness ==
    /\ NameOnly /\ Done
    /\ op.pre.presets[op.arg.index] # NONE
    /\ link = "up"
    /\ io = <<>>
    /\ result = ServiceValidationError("invalid")

\* no change of the name alone gets as far as a request
C27_NameOnlyNeverWrites == NameOnly => (Done /\ io = <<>> /\ result.exc = "ServiceValidationError")

-----------------------------------------------------------------------------
(* Properties of the changes of the PINs *)

PinOp == op.name \in PinOps
PinRemove == op.arg.pin = Pin0000

\* the read-backs after which a change of PIN counts as not persisted
NotPersisted(name, remove, pin_setting) ==
    IF name = "set_authorised_user_pin"
    THEN IF remove THEN pin_setting # "Deactivated" ELSE pin_setting = "Deactivated"
    ELSE IF remove THEN pin_setting # "Single" ELSE pin_setting # "Multi"

\* the requests of the operation from its disconnect after the write of the
\* PIN on, when it made one
AfterPinDisconnect ==
    LET w == CHOOSE i \in 1..Len(io) : io[i][1] = "write" /\ io[i][2] = CHAR_CHANGE_PIN
        ks == {k \in (w + 1)..Len(io) : io[k] = <<"disconnect">>}
    IN  IF ks = {} THEN <<>>
        ELSE SubSeq(io, CHOOSE k \in ks : \A j \in ks : k <= j, Len(io))
PinWritten == PinOp /\ WroteTo(CHAR_CHANGE_PIN)

\* the step of the read-back: the method raises the not-persisted error, and
\* has not disconnected, exactly on the read-backs above
APIPinVerifyStep ==
    (PinOp /\ pc = "pin_readback" /\ pc' # pc) =>
        IF NotPersisted(op.name, PinRemove, data'.pin_setting)
        THEN /\ pc' = "idle"
             /\ result' = APISettingsChangeNotStoredError
             /\ io' = Append(io, <<"read", CHAR_PIN_SETTINGS>>)
        ELSE pc' = "pin_disconnect" /\ result' = Running

\* the method disconnects after its write only when the read-back passed
APIPinDisconnectsVerified ==
    (PinWritten /\ AfterPinDisconnect # <<>>) =>
        ~NotPersisted(op.name, PinRemove, data.pin_setting)

\* a method that returns has, after the disconnect, connected again,
\* authenticated and read every characteristic
APIPinReturnsRefreshed ==
    (PinOp /\ Done /\ result = Ok) =>
        /\ PinWritten
        /\ Len(AfterPinDisconnect) > 2
        /\ AfterPinDisconnect[2] = <<"connect">>
        /\ AfterPinDisconnect[3] = <<"read", CHAR_PIN_CHECK>>
        /\ LET r == ReadsOf(AfterPinDisconnect)
           IN  /\ Len(r) > Len(RefreshOrder)
               /\ SubSeq(r, Len(r) - Len(RefreshOrder) + 1, Len(r)) = RefreshOrder
        /\ Populated(data)
        /\ link = "up"

CoordinatorPinDone == cl.pc = "idle" /\ cl.task.name # "none"
LogHas(kind) == \E i \in 1..Len(cl.log) : cl.log[i][1] = kind

\* the comparison of the coordinator
CoordinatorPinVerifies ==
    (CoordinatorPinDone /\ cl.task.pin_setting # "None") =>
        (cl.task.verified <=>
            ~NotPersisted(cl.task.name, cl.task.remove, cl.task.pin_setting))
\* a verified change disconnects, reads everything again and returns
CoordinatorPinRefreshes ==
    (CoordinatorPinDone /\ cl.task.verified) =>
        (cl.result = "ok" /\ LogHas("disconnect"))

\* C28: after a PIN write the pin settings are read back; setting an
\* authorised-user PIN fails as not persisted iff the read-back is
\* Deactivated, removing it iff it is not Deactivated, setting a supervisor
\* PIN iff it is not Multi, removing it iff it is not Single; only when the
\* verification passes does the method disconnect and run a full refresh
\* (reconnect, authenticate, read everything) before it returns.
C28_PinVerifiedThenRefreshed ==
    /\ [](cl.pc = "off" => (APIPinDisconnectsVerified /\ APIPinReturnsRefreshed))
    /\ [](cl.pc # "off" => (CoordinatorPinVerifies /\ CoordinatorPinRefreshes))
    /\ [][APIPinVerifyStep]_vars

\* the API alone
C28_APIPinVerifiedThenRefreshed ==
    /\ [](cl.pc = "off" => (APIPinDisconnectsVerified /\ APIPinReturnsRefreshed))
    /\ [](cl.pc # "off" => CoordinatorPinVerifies)
    /\ [][APIPinVerifyStep]_vars

\* the coordinator set an authorised-user PIN, the read-back passed, the
\* link was not disconnected and the refresh raised
C28_Witness ==
    /\ cl.pc = "idle"
    /\ cl.task.name = "set_authorised_user_pin" /\ ~cl.task.remove
    /\ cl.task.verified /\ cl.task.pin_setting = "Single"
    /\ ~LogHas("disconnect")
    /\ cl.session # NONE
    /\ cl.result = "IndexError"

\* the API set a supervisor PIN, the read-back was Multi, and the method
\* returned after its disconnect and refresh
C28_APIWitness ==
    /\ PinOp /\ Done /\ result = Ok
    /\ op.name = "set_supervisior_pin" /\ ~PinRemove
    /\ data.pin_setting = "Multi"
    /\ Len(AfterPinDisconnect) > 2
\* the API removed the authorised-user PIN and the read-back was Single
C28_APIWitnessFails ==
    /\ PinOp /\ Done /\ result = APISettingsChangeNotStoredError
    /\ op.name = "set_authorised_user_pin" /\ PinRemove
    /\ data.pin_setting = "Single"

-----------------------------------------------------------------------------
(* Properties of the read-back *)

WritesOf(s) == SelectSeq(s, LAMBDA e : e[1] = "write" /\ e[2] # CHAR_AUTHENTICATE)
CharsOf(s) == [i \in 1..Len(s) |-> s[i][2]]

\* a settings method of the API that got to its comparison read, last of
\* all, the characteristics it wrote
APIReadsBackWhatItWrote ==
    (Done /\ op.name \in SettingOps /\ WritesOf(io) # <<>>
     /\ result.exc \in {"ok", "ServiceValidationError", "APISettingsChangeNotStoredError"}) =>
        LET w == CharsOf(WritesOf(io))
        IN  /\ Len(io) >= 2 * Len(w)
            /\ SubSeq(io, Len(io) - Len(w) + 1, Len(io))
                   = [i \in 1..Len(w) |-> <<"read", w[i]>>]

\* set_tv_width of the coordinator on a mount that stores the width written
ClientReadsBackWhatItWrote ==
    (fin.kind = "tv_width" /\ fout # NONE) =>
        /\ fout[1].read = fout[1].wrote
        /\ fout[1].stored = fin.width => ~fout[1].raises

\* C29: every settings operation reads back, for its verification, the
\* characteristic it wrote, so that a mount that stores every written value
\* never causes a not-persisted error.
C29_ReadsBackWhatItWrote ==
    /\ APIReadsBackWhatItWrote
    /\ ClientReadsBackWhatItWrote

\* the mount stored the width 100, the read-back read the name, whose first
\* byte is 65, and the coordinator raised
C29_Witness ==
    /\ fin.kind = "tv_width" /\ fin.width = 100
    /\ fout # NONE
    /\ fout[1].stored = 100
    /\ fout[1].read = CHAR_NAME
    /\ fout[1].actual = 65
    /\ fout[1].raises

\* the PIN passed is not exactly 4 decimal digits
NotFourDigits(p) == ~(Len(p) = 4 /\ \A i \in 1..Len(p) : p[i] \in DecimalChars)
\* the PIN passed fails the tests of the code: its length and str.isdigit
FailsPinTests(p) == Len(p) # 4 \/ ~isdigit(p)

\* the change is one the pin setting cached at the call forbids
ForbiddenBySetting ==
    \/ op.name = "set_authorised_user_pin" /\ PinRemove /\ op.pre.pin_setting = "Multi"
    \/ op.name = "set_supervisior_pin" /\ op.pre.pin_setting = "Deactivated"
    \/ op.name = "set_supervisior_pin" /\ PinRemove /\ op.pre.pin_setting = "Single"

RejectedBeforeIO == Done /\ io = <<>> /\ result = ServiceValidationError("invalid")

\* C30: a PIN change is rejected with the validation error before any I/O
\* when the PIN is not exactly 4 decimal digits, when the authorised-user
\* PIN is to be removed under the setting Multi, when a supervisor PIN is
\* set or removed under Deactivated, or removed under Single; nothing is
\* written to the change-PIN characteristic.
C30_PinChangeRejected ==
    (PinOp /\ (NotFourDigits(op.arg.pin) \/ ForbiddenBySetting)) => RejectedBeforeIO

\* a PIN of four characters that str.isdigit accepts and int() refuses:
\* the call raises ValueError, not the validation error
C30_Witness ==
    /\ op.name = "set_authorised_user_pin"
    /\ op.arg.pin = <<"1", "2", "sup2", "4">>
    /\ NotFourDigits(op.arg.pin)
    /\ Done /\ io = <<>>
    /\ result = Raise("ValueError", "")

\* what holds: the PINs the tests of the code refuse and the changes the
\* cached setting forbids are rejected before any I/O, and no PIN that is
\* not 4 decimal digits is ever written
C30_CodeTestsReject ==
    /\ (PinOp /\ (FailsPinTests(op.arg.pin) \/ ForbiddenBySetting)) => RejectedBeforeIO
    /\ (PinOp /\ NotFourDigits(op.arg.pin)) => (Done /\ io = <<>> /\ result # Ok)
\* a supervisor PIN was to be set while the cache said Deactivated
C30_WitnessSetting ==
    /\ op.name = "set_supervisior_pin" /\ ~PinRemove
    /\ op.pre.pin_setting = "Deactivated"
    /\ link = "up"
    /\ RejectedBeforeIO

-----------------------------------------------------------------------------
(* Properties of the operations on a slot *)

SlotOps == {"select_preset", "set_preset", "delete_preset"}
\* the last call named a slot outside the range, or asked to select or
\* delete a slot the cache held no preset for
OutsideRange == op.name \in SlotOps /\ op.arg.index \notin PresetIndexes
Unoccupied ==
    /\ op.name \in {"select_preset", "delete_preset"}
    /\ op.arg.index \in PresetIndexes
    /\ (HasKey(op.pre.presets, op.arg.index) => op.pre.presets[op.arg.index] = NONE)
Unfilled ==
    /\ op.name \in {"select_preset", "delete_preset"}
    /\ op.arg.index \in PresetIndexes
    /\ ~HasKey(op.pre.presets, op.arg.index)

\* C31: select_preset, set_preset and delete_preset with an index outside
\* the range, and select_preset and delete_preset for a slot the cache holds
\* no preset for (a cache no refresh has filled included), fail with the
\* validation error and make no connect, read or write
C31_SlotRejected ==
    (OutsideRange \/ Unoccupied) => RejectedBeforeIO

\* a call of select_preset on a cache no refresh has filled has returned
C31_Witness == Done /\ Unfilled /\ op.name = "select_preset"
\* a call with an index outside the range has returned
C31_WitnessOutside == Done /\ OutsideRange

\* what the code does: such a call raises before any request, the
\* validation error when the cache holds the slot and it is empty
C31_SlotRaisesBeforeIO ==
    (OutsideRange \/ Unoccupied) =>
        /\ pc = "idle"
        /\ io = <<>>
        /\ result.exc \in {"ServiceValidationError", "KeyError"}
        /\ (Unoccupied /\ ~Unfilled => result = ServiceValidationError("invalid"))

-----------------------------------------------------------------------------
(* Properties of the bitmask behind a permission decision *)

\* the position in io of the first write to a setting, 0 when there is none
FirstSettingWrite ==
    LET W == {i \in 1..Len(io) : io[i][1] = "write" /\ io[i][2] \in SettingChars}
    IN  IF W = {} THEN 0 ELSE CHOOSE i \in W : \A j \in W : i <= j
\* the operation of the API read the bitmask after a status read and before
\* position n of io
ReadFeaturesBefore(n) ==
    \E i \in 1..(n - 1) :
        /\ io[i] = <<"read", CHAR_MULTI_PIN_FEATURES>>
        /\ \E j \in 1..(i - 1) : IsStatusRead(io[j])
\* API: a settings operation refused for lack of permission was refused on
\* the bitmask its last request read
APIRefusalFresh ==
    (/\ Done
     /\ op.type = "Settings"
     /\ result.exc = "APIAuthenticationError"
     /\ result.msg = "permission") =>
        /\ Len(io) >= 2
        /\ io[Len(io)] = <<"read", CHAR_MULTI_PIN_FEATURES>>
        /\ IsStatusRead(io[Len(io) - 1])
        /\ data.multi_pin_features = Some(MultiPinFeatures(dev[CHAR_MULTI_PIN_FEATURES][1]))
\* API: under Control, a settings operation that went on to its write had
\* read the bitmask before it
APIGrantFresh ==
    (/\ op.type = "Settings"
     /\ data.auth_type = "Control"
     /\ FirstSettingWrite > 0) => ReadFeaturesBefore(FirstSettingWrite)
\* session client: a write to the name decided under Control
ClientDecided ==
    /\ cl.pc = "idle"
    /\ cl.name = "write"
    /\ cl.char = CHAR_NAME
    /\ cl.result \in {"ok", "APIAuthenticationError"}
    /\ cl.permissions # NONE
    /\ cl.permissions[1].auth_type = "Control"
ClientReadFeatures ==
    \E i \in 1..Len(cl.log) :
        cl.log[i][1] = "read" /\ cl.log[i][2] = CHAR_MULTI_PIN_FEATURES
ClientDecisionFresh == ClientDecided => ClientReadFeatures

\* C32: under Control, the permission decision of every settings operation
\* uses a bitmask read from the mount during that operation, after the
\* status was established and before the write; a bitmask cached by an
\* earlier operation never decides
C32_BitmaskReadInOperation ==
    IF cl.pc # "off" THEN ClientDecisionFresh
    ELSE APIRefusalFresh /\ APIGrantFresh

\* the session client decided the second write of a session under Control
C32_Witness == cl.pc # "off" /\ ClientDecided /\ cl.nops = 2 /\ ~ClientReadFeatures
\* the API wrote a setting under Control without reading the bitmask
C32_APIWitness ==
    /\ cl.pc = "off"
    /\ op.type = "Settings"
    /\ data.auth_type = "Control"
    /\ FirstSettingWrite > 0
    /\ ~ReadFeaturesBefore(FirstSettingWrite)
\* the API refused a settings operation under Control
C32_APIRefusalWitness ==
    /\ cl.pc = "off" /\ Done /\ op.type = "Settings"
    /\ result.exc = "APIAuthenticationError" /\ result.msg = "permission"

\* what the API does: every refusal is made on the bitmask just read
C32_APIRefusalFresh == cl.pc = "off" => APIRefusalFresh

-----------------------------------------------------------------------------
(* Properties of the end of _authenticate *)

IsAuthRequest(e) == IsAuthWrite(e) \/ IsStatusRead(e)
\* the requests of the call of _authenticate in progress: the status reads
\* and PIN writes at the end of the log
RECURSIVE AuthSuffix(_)
AuthSuffix(s) ==
    IF s = <<>> \/ ~IsAuthRequest(s[Len(s)]) THEN <<>>
    ELSE Append(AuthSuffix(SubSeq(s, 1, Len(s) - 1)), s[Len(s)])
InAuthenticate ==
    pc \in {"auth_check", "auth_features", "auth_missing", "auth_wrong",
            "auth_write", "auth_poll"}
\* one call writes the PIN at most twice and reads the status at most 9 times
AuthBounded ==
    InAuthenticate =>
        /\ Cardinality(AuthWrites(AuthSuffix(io))) <= 2
        /\ Len(SelectSeq(AuthSuffix(io), IsStatusRead)) <= 1 + 2 * 4
\* a status read that denies access either goes on within these bounds or
\* ends the call; the call then disconnects and raises the authentication
\* error, whatever the operation
AuthDeniedStep ==
    /\ (pc \in {"auth_check", "auth_poll"} /\ ReportsNone(op'.auth_info)) =>
            pc' \in {"auth_poll", "auth_write", "auth_wrong", "auth_missing"}
    /\ pc \in {"auth_wrong", "auth_missing"} =>
            /\ pc' = "idle"
            /\ result'.exc = "APIAuthenticationError"
            /\ io' = Append(io, <<"disconnect">>)

\* C33: every call of authenticate terminates; against a mount that never
\* grants access it writes the PIN at most twice, reads the status at most
\* 9 times and then raises the authentication error, inside refresh as
\* well; it never retries beyond that
C33_AuthenticateTerminates ==
    /\ []AuthBounded
    /\ [][AuthDeniedStep]_vars
    /\ (InAuthenticate ~> ~InAuthenticate)

\* a refresh ended with the authentication error after two writes of the
\* PIN and nine status reads, none of which granted access
C33_Witness ==
    /\ Done
    /\ op.name = "refresh_data"
    /\ result.exc = "APIAuthenticationError"
    /\ result.msg = "invalid"
    /\ Cardinality(AuthWrites(io)) = 2
    /\ Len(SelectSeq(io, IsStatusRead)) = 9

-----------------------------------------------------------------------------
(* Properties of the Permissions record *)

\* the record p is the one the level and the bitmask call for
PermissionsFor(p, auth_type, value) ==
    /\ p.auth_type = auth_type
    /\ p.change_settings = (auth_type = "Full")
    /\ \A f \in SettingsRequestTypes :
        p[f] = IF auth_type = "Full" THEN TRUE
               ELSE IF auth_type = "Control" THEN FeatureSet(value, f)
               ELSE FALSE

C34_SessionWitness ==
    /\ cl.pc # "off"
    /\ cl.session # NONE
    /\ cl.session[1].permissions.auth_type = "Control"

-----------------------------------------------------------------------------
(* Properties of the level behind a write of a setting *)

\* _connect is about to write a setting
SettingWriteDue == pc = "write" /\ op.type = "Settings"
\* the last request of _authenticate was the read of the bitmask
BitmaskJustRead == io # <<>> /\ io[Len(io)] = <<"read", CHAR_MULTI_PIN_FEATURES>>
\* the level and the bitmask of this operation allow the setting
LevelAllows ==
    \/ data.auth_type = "Full"
    \/ /\ data.auth_type = "Control"
       /\ op.srt \in SettingsRequestTypes
       /\ BitmaskJustRead
       /\ data.multi_pin_features # NONE
       /\ data.multi_pin_features[1][op.srt]
       /\ FeatureSet(dev[CHAR_MULTI_PIN_FEATURES][1], op.srt)

\* C35: whenever a write of a setting is issued, the level established in
\* that operation is Full, or it is Control and the feature bit of the
\* action was set in the bitmask read during that operation, on every path,
\* the one where the attempt with the Supervisor encoding ended with the
\* mount reporting Control included; settings without a feature bit are
\* written only under Full
C35_SettingWriteAuthorised == SettingWriteDue => LevelAllows

\* set_name is about to write the name under Control with the change_name
\* bit clear, after the attempt with the Supervisior encoding
C35_Witness ==
    /\ SettingWriteDue
    /\ op.name = "set_name"
    /\ data.auth_type = "Control"
    /\ pin_type = "Supervisior"
    /\ IsStatusRead(io[Len(io)])
    /\ ~FeatureSet(dev[CHAR_MULTI_PIN_FEATURES][1], "change_name")

\* what the code ensures: a write that follows a read of the bitmask is
\* allowed by the level and the bitmask
C35_CheckedPathsAuthorised == (SettingWriteDue /\ BitmaskJustRead) => LevelAllows
\* a write of a setting was due after a read of the bitmask
C35_CheckedWitness == SettingWriteDue /\ BitmaskJustRead /\ data.auth_type = "Control"

-----------------------------------------------------------------------------
(* Properties of the links two operations establish *)

\* two calls of establish_connection are in flight
TwoEstablishing == pc = "establish" /\ tk.pc = "establish"
\* a link is established only while none is up
EstablishesOnDeadLink == net'.established > net.established => link # "up"

\* C36: when two operations start while the mount is disconnected, at most
\* one link is established: the engine never has two establish-connection
\* calls in flight at once and never replaces a live link with a second one
C36_OneLink == []~TwoEstablishing /\ [][EstablishesOnDeadLink]_vars

\* set_name and set_distance, both started on a link that was not up, are
\* both suspended in establish_connection
C36_Witness ==
    /\ TwoEstablishing
    /\ op.pre_link # "up"
    /\ tk.op.pre_link # "up"
    /\ op.name # tk.op.name
\* the second of them has established its link while the first was up
C36_WitnessReplaced ==
    /\ link = "up"
    /\ net.established = 2
    /\ net.delivered = 0
    /\ net.lost = 0

\* what the code ensures: an operation running alone establishes a link
\* only while none is up
C36_AloneOneLink == [][EstablishesOnDeadLink]_vars

-----------------------------------------------------------------------------
(* Properties of the connection state and of the events around a refresh *)

\* a refresh of the API has returned without error
APIRefreshed == Done /\ op.name = "refresh_data" /\ result = Ok
\* the coordinator holds the record of a refresh that returned
CoordinatorRefreshed == cl.pc # "off" /\ cl.data # NONE
\* the link of the session stored is up
SessionUp == cl.session # NONE /\ cl.session[1].client \in cl.up

C37_CoordinatorWitness ==
    /\ cl.pc = "idle"
    /\ cl.nops = 1
    /\ cl.then = "update"
    /\ SessionUp
    /\ cl.log # <<>>

\* the refresh of the coordinator never returns a record: read_presets
\* raises on every mount
C37_CoordinatorNeverRefreshed ==
    cl.pc # "off" => (cl.data = NONE /\ (cl.then = "update" => cl.result # "ok"))

\* the step in which a refresh of the API returns without error
APIRefreshReturns ==
    /\ cl.pc = "off"
    /\ op.name = "refresh_data"
    /\ pc # "idle"
    /\ pc' = "idle"
    /\ result' = Ok
\* the cache holds the payload of the last event or read of each field: the
\* mount moves only with a notification, and loses the link only with the
\* disconnected callback
MovesCurrent(d, v, l) ==
    /\ d.distance = Some(FromBytesBE(v[CHAR_DISTANCE]))
    /\ d.rotation = Some(FromBytesBE(v[CHAR_ROTATION]))
    /\ d.connected = (l = "up")
\* the step in which a refresh of the coordinator returns its record
CoordinatorRefreshReturns ==
    /\ cl.pc = "update"
    /\ cl'.pc = "idle"
    /\ cl'.result = "ok"
RefreshKeepsEvents ==
    /\ APIRefreshReturns => MovesCurrent(data', dev', link')
    /\ CoordinatorRefreshReturns =>
            (cl'.data # NONE /\ Some(cl'.data[1].connected) = cl'.connected)

C38_WitnessReturned ==
    /\ cl.pc = "off"
    /\ APIRefreshed
    /\ nops = 1
    /\ data.distance = Some(55)
    /\ data.rotation = Some(30)
    /\ data.connected

-----------------------------------------------------------------------------
(* Properties of the failures of _authenticate *)

AuthFailed(msg) == Done /\ result.exc = "APIAuthenticationError" /\ result.msg = msg
LastRequest == IF io = <<>> THEN <<"none">> ELSE io[Len(io)]
\* the states before and after the failure
AuthFailureStates ==
    /\ pc = "auth_missing" => (data.auth_type = "Missing" /\ LastRequest # <<"disconnect">>)
    /\ pc = "auth_wrong" => (data.auth_type = "Wrong" /\ LastRequest # <<"disconnect">>)
    /\ AuthFailed("missing") =>
            (LastRequest = <<"disconnect">> /\ data.auth_type = "Missing" /\ link # "up")
    /\ AuthFailed("invalid") =>
            (LastRequest = <<"disconnect">> /\ data.auth_type = "Wrong" /\ link # "up")
    /\ AuthFailed("permission") =>
            /\ \A i \in 1..Len(io) : io[i] # <<"disconnect">>
            /\ link = "up"
            /\ data.auth_type = "Control"
\* the error reaches the caller in the step that calls disconnect, and in
\* no other
AuthFailureStep ==
    /\ pc \in {"auth_missing", "auth_wrong"} =>
            /\ io' = Append(io, <<"disconnect">>)
            /\ pc' = "idle"
            /\ result'.exc = "APIAuthenticationError"
            /\ data'.auth_type = data.auth_type
    /\ (pc # "idle" /\ pc' = "idle" /\ result'.exc = "APIAuthenticationError"
        /\ result'.msg # "permission") => pc \in {"auth_missing", "auth_wrong"}

\* C39: when authenticate fails with Missing or Wrong, the engine requests
\* the disconnection of the link before the authentication error reaches
\* the caller, and it has set auth_type to Missing or Wrong before; a
\* failure for lack of a settings permission does not disconnect
C39_AuthFailureDisconnects == []AuthFailureStates /\ [][AuthFailureStep]_vars

\* set_name failed with a wrong PIN after the disconnect
C39_Witness ==
    /\ AuthFailed("invalid")
    /\ op.name = "set_name"
    /\ LastRequest = <<"disconnect">>
    /\ data.auth_type = "Wrong"
    /\ link = "down"
\* set_name failed for lack of the permission, the link up
C39_WitnessPermission == AuthFailed("permission") /\ op.name = "set_name" /\ link = "up"
\* an operation failed without a PIN
C39_WitnessMissing == AuthFailed("missing") /\ LastRequest = <<"disconnect">>

-----------------------------------------------------------------------------
(* Properties of the state after unload *)

\* unload has returned and no callback is outstanding
UnloadedAndDelivered == pc = "idle" /\ op.name = "unload" /\ ~CallbackPending
\* unload tore down a link that was up
UnloadTornDown == op.name = "unload" /\ op.pre_link = "up"

\* C40: after unload has completed and the transport has delivered the
\* disconnect callback of the torn-down link, in whichever order, connected
\* is false and the API holds no device handle and no client
C40_UnloadedIsDisconnected ==
    UnloadedAndDelivered => (~data.connected /\ link = "none")

\* unload tore down a link, returned, the callback came afterwards, and the
\* cache still says connected
C40_Witness ==
    /\ UnloadedAndDelivered
    /\ UnloadTornDown
    /\ net.established = net.delivered
    /\ link = "none"
    /\ data.connected
\* the callback came while unload was suspended: the cache says disconnected
C40_WitnessDuring ==
    /\ UnloadedAndDelivered
    /\ UnloadTornDown
    /\ link = "none"
    /\ ~data.connected
\* unload has returned before the callback
C40_WitnessPending == pc = "idle" /\ op.name = "unload" /\ CallbackPending /\ link = "none"

\* what holds in both orders: the handle and the client are dropped when
\* unload returns, and an unload that returns after the callback leaves
\* connected false
UnloadReturnStep ==
    (pc = "unload" /\ pc' = "idle") =>
        /\ link' = "none"
        /\ ~CallbackPending => ~data'.connected
C40_UnloadReleases ==
    /\ [](pc = "idle" /\ op.name = "unload" => link = "none")
    /\ [][UnloadReturnStep]_vars

=============================================================================
